---- MODULE Spec2Model ----
(***************************************************************************)
(* Model of the subtitle merge engine of srtmerger (src/main.py, class     *)
(* Merger).  Text is a sequence of Unicode code points, a byte string is a *)
(* sequence of numbers in 0..255, so that parsing, styling, encoding and   *)
(* byte-order-mark handling are computed the way the Python code computes  *)
(* them.  The Python value None of an optional text argument is the empty  *)
(* sequence: the engine only ever tests such arguments for truthiness.     *)
(***************************************************************************)
EXTENDS Integers, Sequences, FiniteSets, TLC

(***************************************************************************)
(* Bounds of the model.                                                    *)
(***************************************************************************)
MaxAdds == 2

(***************************************************************************)
(* Python str / bytes primitives used by the engine.                       *)
(***************************************************************************)
NL == <<10>>
CRLF == <<13, 10>>
ARROW == <<45, 45, 62>>
SLASH == <<47>>

\* characters for which str.isspace() is true (code points below 256)
Whitespace == {9, 10, 11, 12, 13, 28, 29, 30, 31, 32, 133, 160}

StartsWith(s, p) == Len(p) <= Len(s) /\ SubSeq(s, 1, Len(p)) = p

EndsWith(s, p) == Len(p) <= Len(s) /\ SubSeq(s, Len(s) - Len(p) + 1, Len(s)) = p

Drop(s, n) == SubSeq(s, n + 1, Len(s))

Min(S) == CHOOSE x \in S : \A y \in S : x <= y

Max(S) == CHOOSE x \in S : \A y \in S : y <= x

\* smallest index >= i at which p occurs in s, 0 when there is none
Find(s, p, i) ==
    LET hits == {j \in i..(Len(s) - Len(p) + 1) :
                    s[j] = p[1] /\ SubSeq(s, j, j + Len(p) - 1) = p}
    IN  IF hits = {} THEN 0 ELSE Min(hits)

RECURSIVE Split(_, _, _)
\* str.split(sep, maxsplit); maxsplit = -1 splits at every occurrence
Split(s, sep, maxsplit) ==
    LET i == Find(s, sep, 1) IN
    IF maxsplit = 0 \/ i = 0 THEN <<s>>
    ELSE <<SubSeq(s, 1, i - 1)>> \o Split(Drop(s, i + Len(sep) - 1), sep, maxsplit - 1)

RECURSIVE Replace(_, _, _, _)
\* str.replace(old, new, count); count = -1 replaces every occurrence
Replace(s, old, new, count) ==
    LET i == Find(s, old, 1) IN
    IF count = 0 \/ i = 0 THEN s
    ELSE SubSeq(s, 1, i - 1) \o new \o Replace(Drop(s, i + Len(old) - 1), old, new, count - 1)

\* the positions of s that hold no whitespace
Inked(s) == {i \in 1..Len(s) : s[i] \notin Whitespace}

LStrip(s) == IF Inked(s) = {} THEN <<>> ELSE SubSeq(s, Min(Inked(s)), Len(s))

RStrip(s) == IF Inked(s) = {} THEN <<>> ELSE SubSeq(s, 1, Max(Inked(s)))

Strip(s) == LStrip(RStrip(s))

RECURSIVE ConcatRange(_, _, _)
ConcatRange(ss, lo, hi) ==
    IF lo > hi THEN <<>>
    ELSE IF lo = hi THEN ss[lo]
    ELSE LET mid == (lo + hi) \div 2
         IN  ConcatRange(ss, lo, mid) \o ConcatRange(ss, mid + 1, hi)

\* b''.join(list)
Concat(ss) == ConcatRange(ss, 1, Len(ss))

RECURSIVE Str(_)
\* str(n) for a natural number n
Str(n) == IF n < 10 THEN <<48 + n>> ELSE Str(n \div 10) \o <<48 + (n % 10)>>

IsDigits(s) == s # <<>> /\ \A i \in 1..Len(s) : s[i] \in 48..57

RECURSIVE ToInt(_)
ToInt(s) == IF s = <<>> THEN 0 ELSE 10 * ToInt(SubSeq(s, 1, Len(s) - 1)) + (s[Len(s)] - 48)

RECURSIVE Pow10(_)
Pow10(n) == IF n = 0 THEN 1 ELSE 10 * Pow10(n - 1)

Upper(s) == [i \in 1..Len(s) |-> IF s[i] \in 97..122 THEN s[i] - 32 ELSE s[i]]

Lower(s) == [i \in 1..Len(s) |-> IF s[i] \in 65..90 THEN s[i] + 32 ELSE s[i]]

RemoveChar(s, c) == Replace(s, <<c>>, <<>>, -1)

(***************************************************************************)
(* datetime.strptime(timestamp, '%H:%M:%S,%f').timestamp().  The result is *)
(* [ok |-> FALSE] when strptime raises ValueError, and otherwise the key   *)
(* is the time of day in microseconds: .timestamp() adds the same offset   *)
(* to every value, so equality and order of keys are those of the floats.  *)
(***************************************************************************)
ParseTimestamp(ts) ==
    LET hms == Split(ts, <<58>>, -1)
        sf == IF Len(hms) = 3 THEN Split(hms[3], <<44>>, -1) ELSE <<>>
        wellFormed ==
            /\ Len(hms) = 3
            /\ Len(sf) = 2
            /\ IsDigits(hms[1]) /\ Len(hms[1]) <= 2 /\ ToInt(hms[1]) <= 23
            /\ IsDigits(hms[2]) /\ Len(hms[2]) <= 2 /\ ToInt(hms[2]) <= 59
            /\ IsDigits(sf[1]) /\ Len(sf[1]) <= 2 /\ ToInt(sf[1]) <= 59
            /\ IsDigits(sf[2]) /\ Len(sf[2]) <= 6
    IN  IF wellFormed
        THEN [ok |-> TRUE,
              key |-> ((ToInt(hms[1]) * 60 + ToInt(hms[2])) * 60 + ToInt(sf[1])) * 1000000
                      + ToInt(sf[2]) * Pow10(6 - Len(sf[2]))]
        ELSE [ok |-> FALSE, key |-> 0]

(***************************************************************************)
(* Python codecs: the lookup of a codec by name, encoding and decoding.    *)
(***************************************************************************)
\* the codec name as the codec registry normalises it before the lookup
NormalizeEncoding(name) ==
    LET l == Lower(name)
    IN  [i \in 1..Len(l) |-> IF l[i] \in {45, 32} THEN 95 ELSE l[i]]

\* the codec a name resolves to; "unknown" makes every use raise LookupError
LookupCodec(name) ==
    LET n == NormalizeEncoding(name) IN
    CASE n \in {<<117, 116, 102, 95, 56>>, <<117, 116, 102, 56>>} -> "utf_8"
      [] n = <<97, 115, 99, 105, 105>> -> "ascii"
      [] n \in {<<108, 97, 116, 105, 110, 95, 49>>, <<108, 97, 116, 105, 110, 49>>} -> "latin_1"
      [] n \in {<<117, 116, 102, 95, 49, 54>>, <<117, 116, 102, 49, 54>>} -> "utf_16"
      [] n \in {<<117, 116, 102, 95, 49, 54, 95, 108, 101>>,
                <<117, 116, 102, 95, 49, 54, 108, 101>>} -> "utf_16_le"
      [] n \in {<<117, 116, 102, 95, 49, 54, 95, 98, 101>>,
                <<117, 116, 102, 95, 49, 54, 98, 101>>} -> "utf_16_be"
      [] n \in {<<117, 116, 102, 95, 51, 50>>, <<117, 116, 102, 51, 50>>} -> "utf_32"
      [] n \in {<<117, 116, 102, 95, 51, 50, 95, 108, 101>>,
                <<117, 116, 102, 95, 51, 50, 108, 101>>} -> "utf_32_le"
      [] n \in {<<117, 116, 102, 95, 51, 50, 95, 98, 101>>,
                <<117, 116, 102, 95, 51, 50, 98, 101>>} -> "utf_32_be"
      [] OTHER -> "unknown"

\* the byte-order-mark constants of the codecs module
BOM_UTF8 == <<239, 187, 191>>
BOM_UTF16_LE == <<255, 254>>
BOM_UTF16_BE == <<254, 255>>
BOM_UTF32_LE == <<255, 254, 0, 0>>
BOM_UTF32_BE == <<0, 0, 254, 255>>
\* codecs.BOM and codecs.BOM_UTF32 are the marks of the platform's byte order
BOM(order) == IF order = "little" THEN BOM_UTF16_LE ELSE BOM_UTF16_BE
BOM_UTF32(order) == IF order = "little" THEN BOM_UTF32_LE ELSE BOM_UTF32_BE

\* the UTF-8 bytes of the code point c (below 65536)
Utf8Char(c) ==
    IF c < 128 THEN <<c>>
    ELSE IF c < 2048 THEN <<192 + (c \div 64), 128 + (c % 64)>>
    ELSE <<224 + (c \div 4096), 128 + ((c \div 64) % 64), 128 + (c % 64)>>

Utf8Bytes(text) ==
    IF \A i \in 1..Len(text) : text[i] < 128 THEN text
    ELSE Concat([i \in 1..Len(text) |-> Utf8Char(text[i])])

\* UTF-16 and UTF-32 code units of the code points of text (below 65536),
\* each unit in the byte order given
Utf16Bytes(text, order) ==
    [k \in 1..(2 * Len(text)) |->
        LET c == text[(k + 1) \div 2]
            low == (k % 2 = 1) = (order = "little")
        IN  IF low THEN c % 256 ELSE c \div 256]

Utf32Bytes(text, order) ==
    [k \in 1..(4 * Len(text)) |->
        LET c == text[(k + 3) \div 4]
            pos == IF order = "little" THEN (k - 1) % 4 ELSE 3 - ((k - 1) % 4)
        IN  IF pos = 0 THEN c % 256 ELSE IF pos = 1 THEN c \div 256 ELSE 0]

\* bytes(text, encoding=codec): [ok, bytes]; ok = FALSE when the call raises
PyEncode(text, codec, order) ==
    LET fits(max) == \A i \in 1..Len(text) : text[i] < max
        done(b) == [ok |-> TRUE, bytes |-> b]
        fail == [ok |-> FALSE, bytes |-> <<>>]
    IN  CASE codec = "utf_8" -> done(Utf8Bytes(text))
          [] codec = "ascii" -> IF fits(128) THEN done(text) ELSE fail
          [] codec = "latin_1" -> IF fits(256) THEN done(text) ELSE fail
          [] codec = "utf_16" -> done(BOM(order) \o Utf16Bytes(text, order))
          [] codec = "utf_16_le" -> done(Utf16Bytes(text, "little"))
          [] codec = "utf_16_be" -> done(Utf16Bytes(text, "big"))
          [] codec = "utf_32" -> done(BOM_UTF32(order) \o Utf32Bytes(text, order))
          [] codec = "utf_32_le" -> done(Utf32Bytes(text, "little"))
          [] codec = "utf_32_be" -> done(Utf32Bytes(text, "big"))
          [] OTHER -> fail

\* bytes.decode('utf-8') for code points below 2048: [ok, text]; ok = FALSE
\* on UnicodeDecodeError.  A byte is ASCII, the lead byte of a two-byte
\* sequence or its continuation byte; anything else is invalid here.
Utf8Decode(b) ==
    LET n == Len(b)
        cont(i) == b[i] \in 128..191
        lead(i) == b[i] \in 194..223
        valid == \A i \in 1..n : \/ b[i] < 128
                                 \/ lead(i) /\ i < n /\ cont(i + 1)
                                 \/ cont(i) /\ i > 1 /\ lead(i - 1)
        first(i) == ~cont(i)
        starts == SelectSeq([i \in 1..n |-> i], first)
        char(i) == IF b[i] < 128 THEN b[i] ELSE (b[i] - 192) * 64 + (b[i + 1] - 128)
    IN  IF valid
        THEN [ok |-> TRUE, text |-> [k \in 1..Len(starts) |-> char(starts[k])]]
        ELSE [ok |-> FALSE, text |-> <<>>]

\* bytes.decode(codec) for the input codecs of the model
PyDecode(b, codec) ==
    CASE codec = "utf_8" -> Utf8Decode(b)
      [] codec = "latin_1" -> [ok |-> TRUE, text |-> b]
      [] codec = "ascii" ->
            IF \A i \in 1..Len(b) : b[i] < 128
            THEN [ok |-> TRUE, text |-> b] ELSE [ok |-> FALSE, text |-> <<>>]
      [] OTHER -> [ok |-> FALSE, text |-> <<>>]

(***************************************************************************)
(* Merger: the state of one session, the file system and the platform.     *)
(***************************************************************************)
VARIABLES
    output_path,      \* self.output_path
    output_name,      \* self.output_name
    output_encoding,  \* self.output_encoding, the codec name as given
    byteorder,        \* sys.byteorder of the platform, fixes codecs.BOM
    timestamps,       \* self.timestamps
    subtitles,        \* self.subtitles
    lines,            \* self.lines
    font_sizes,       \* self.font_sizes
    outfile,          \* the output file on disk: [exists, path, data]
    emitted,          \* for each element of self.lines, the loop variables (t, sub) it was appended under
    ret,              \* the last call and how it returned: [op, outcome, value]
    nAdds,            \* number of add calls made
    color_arg,        \* the argument of a call of normalize_color
    color_ret,        \* that call's result: [done, value]
    mergers,          \* two Merger instances in one process: arguments, calls made, output written
    lists,            \* the list objects the instances' attributes are bound to
    worker,           \* a MergeWorker: its attributes and the position of run() and of its caller
    signals           \* the signals the MergeWorker has emitted, in order

\* the variables of the session
sessionVars == <<output_path, output_name, output_encoding, byteorder, timestamps,
                 subtitles, lines, font_sizes, outfile, emitted, ret, nAdds>>

\* the variables of a call of normalize_color
colorVars == <<color_arg, color_ret>>

\* the variables of two sessions side by side
pairVars == <<mergers, lists>>

\* the variables of a batch run
workerVars == <<worker, signals>>

vars == <<sessionVars, colorVars, pairVars, workerVars>>

\* COLORS['WHITE'], the default of add's color argument
WHITE == <<35, 70, 70, 70, 70, 70, 70>>

\* b'An error has been occured in encoing by specifed `output_encoding`'
EncodeErrorBytes ==
    <<65, 110, 32, 101, 114, 114, 111, 114, 32, 104, 97, 115, 32, 98, 101, 101, 110, 32,
      111, 99, 99, 117, 114, 101, 100, 32, 105, 110, 32, 101, 110, 99, 111, 105, 110, 103,
      32, 98, 121, 32, 115, 112, 101, 99, 105, 102, 101, 100, 32, 96, 111, 117, 116, 112,
      117, 116, 95, 101, 110, 99, 111, 100, 105, 110, 103, 96>>

\* '<font face="Gandhi Sans" size="'
FontSizeOpen ==
    <<60, 102, 111, 110, 116, 32, 102, 97, 99, 101, 61, 34, 71, 97, 110, 100, 104, 105, 32,
      83, 97, 110, 115, 34, 32, 115, 105, 122, 101, 61, 34>>
\* '<font color="'
FontColorOpen == <<60, 102, 111, 110, 116, 32, 99, 111, 108, 111, 114, 61, 34>>
\* '">'
TagEnd == <<34, 62>>
\* '</font>'
FontClose == <<60, 47, 102, 111, 110, 116, 62>>
\* '{\an8}'
AN8 == <<123, 92, 97, 110, 56, 125>>

(***************************************************************************)
(* Merger._split_dialogs                                                   *)
(***************************************************************************)
RECURSIVE SplitBlocks(_)
\* re.split('\r\n\r|\n\n', data): the text is cut at the leftmost match of
\* either alternative, then the rest is split the same way
SplitBlocks(s) ==
    LET a == Find(s, <<13, 10, 13>>, 1)
        b == Find(s, <<10, 10>>, 1)
    IN  IF a = 0 /\ b = 0 THEN <<s>>
        ELSE IF a # 0 /\ (b = 0 \/ a < b)
        THEN <<SubSeq(s, 1, a - 1)>> \o SplitBlocks(Drop(s, a + 2))
        ELSE <<SubSeq(s, 1, b - 1)>> \o SplitBlocks(Drop(s, b + 1))

\* faulty variant: the color tag is applied before the size tag
ApplyStyleColorFirst(body, color, size, top) ==
    LET t0 == RStrip(body)
        t1 == IF color # <<>> THEN FontColorOpen \o color \o TagEnd \o t0 \o FontClose ELSE t0
        t2 == IF size # <<>> THEN FontSizeOpen \o size \o TagEnd \o t1 \o FontClose ELSE t1
    IN  IF top THEN AN8 \o t2 ELSE t2

\* lines 160-169: the style applied to the body of one cue
ApplyStyle(body, color, size, top) ==
    LET t0 == RStrip(body)
        t1 == IF size # <<>> THEN FontSizeOpen \o size \o TagEnd \o t0 \o FontClose ELSE t0
        t2 == IF color # <<>> THEN FontColorOpen \o color \o TagEnd \o t1 \o FontClose ELSE t1
    IN  IF top THEN AN8 \o t2 ELSE t2

\* dict assignment d[k] = v
DictSet(d, k, v) == [x \in (DOMAIN d) \cup {k} |-> IF x = k THEN v ELSE d[x]]

\* lines 133-138: the leading line terminator of a block is removed
StripLeadingTerminator(dialog) ==
    LET d1 == IF StartsWith(dialog, CRLF) THEN Replace(dialog, CRLF, <<>>, 1) ELSE dialog
    IN  IF StartsWith(d1, NL) THEN Drop(d1, 1) ELSE d1

\* line 184: the handler of the second try block uses self.logger, an
\* attribute that Merger never sets, so the handler itself raises
LoggerError == "AttributeError"

\* One iteration of the loop of _split_dialogs on the block dialog0.
\* st = [dialogs, timestamps, raised]: subtitle['dialogs'], self.timestamps
\* and the exception that left the loop ("" while there is none).
SplitDialog(st, dialog0, color, size, top) ==
    LET d2 == StripLeadingTerminator(dialog0)
        dialog == IF StartsWith(d2, CRLF) THEN Drop(d2, 2) ELSE d2
        head == Split(dialog, NL, 2)
        time == head[2]
        timestamp == Strip(Split(time, ARROW, -1)[1])
        parsed == ParseTimestamp(timestamp)
        texts == Tail(Split(Split(dialog, NL, 1)[2], NL, -1))
        text == Concat([i \in 1..Len(texts) |-> texts[i] \o NL])
        styled == ApplyStyle(text, color, size, top)
        prev == Split(st.dialogs[parsed.key], NL, 2)
        entry == IF parsed.key \in DOMAIN st.dialogs
                 THEN time \o NL \o Strip(prev[3]) \o NL \o styled \o NL
                 ELSE time \o NL \o styled \o NL
    IN  IF d2 = <<>> \/ d2 = NL \/ Strip(d2) = <<>> THEN st
        ELSE IF Len(head) < 2 THEN st
        ELSE IF ~parsed.ok THEN [st EXCEPT !.raised = LoggerError]
        ELSE IF text = <<>> \/ text = NL THEN st
        ELSE IF parsed.key \in DOMAIN st.dialogs /\ Len(prev) < 3
             THEN [st EXCEPT !.raised = LoggerError]
        ELSE [st EXCEPT !.dialogs = DictSet(st.dialogs, parsed.key, entry),
                        !.timestamps = Append(st.timestamps, parsed.key)]

RECURSIVE _split_dialogs(_, _, _, _, _)
_split_dialogs(st, dialogs, color, size, top) ==
    IF dialogs = <<>> \/ st.raised # "" THEN st
    ELSE _split_dialogs(SplitDialog(st, Head(dialogs), color, size, top),
                        Tail(dialogs), color, size, top)

(***************************************************************************)
(* Merger._encode, Merger._insert_bom, Merger.get_output_path              *)
(***************************************************************************)
\* faulty variant: the exception of bytes() is not caught
_encode_unguarded(text, codec, order) ==
    LET r == PyEncode(text, LookupCodec(codec), order)
    IN  IF r.ok THEN [raised |-> "", bytes |-> r.bytes]
        ELSE [raised |-> "UnicodeEncodeError", bytes |-> <<>>]

\* [raised, bytes]; the except clause catches every exception of bytes(),
\* so raised is always ""
_encode(text, codec, order) ==
    LET r == PyEncode(text, LookupCodec(codec), order)
    IN  IF r.ok THEN [raised |-> "", bytes |-> r.bytes]
        ELSE [raised |-> "", bytes |-> EncodeErrorBytes]

\* [raised, bytes]: raised = "AttributeError" for codecs.BOM_UTF64_BE, which
\* the codecs module does not define
_insert_bom(content, encoding, order) ==
    LET e == Upper(RemoveChar(RemoveChar(RemoveChar(encoding, 45), 95), 32))
        ret_(b) == [raised |-> "", bytes |-> b]
    IN  IF e \in {<<85, 84, 70, 54, 52, 76, 69>>, <<85, 84, 70, 49, 54>>, <<85, 84, 70, 49, 54, 76, 69>>}
        THEN ret_(BOM(order) \o content)
        ELSE IF e = <<85, 84, 70, 56>> THEN ret_(BOM_UTF8 \o content)
        ELSE IF e = <<85, 84, 70, 51, 50, 76, 69>> THEN ret_(BOM_UTF32_LE \o content)
        ELSE IF e = <<85, 84, 70, 54, 52, 66, 69>> THEN [raised |-> "AttributeError", bytes |-> <<>>]
        ELSE IF e = <<85, 84, 70, 49, 54, 66, 69>> THEN ret_(BOM_UTF32_BE \o content)
        ELSE IF e = <<85, 84, 70, 51, 50, 66, 69>> THEN ret_(BOM_UTF32_BE \o content)
        ELSE IF e = <<85, 84, 70, 51, 50>> THEN ret_(BOM_UTF32(order) \o content)
        ELSE ret_(content)

\* faulty variant: the separator is inserted whatever the path ends with
get_output_path_always_slash(path, name) == path \o SLASH \o name

get_output_path(path, name) ==
    IF EndsWith(path, SLASH) THEN path \o name ELSE path \o SLASH \o name

(***************************************************************************)
(* normalize_color.  The tokens of the model are ASCII, for which Upper is  *)
(* str.upper().                                                            *)
(***************************************************************************)
\* the dictionary COLORS: RED BLUE GREEN WHITE YELLOW CYAN MAGENTA ORANGE PURPLE PINK
COLORS ==
    (<<82, 69, 68>> :> <<35, 70, 70, 48, 48, 51, 66>>) @@
    (<<66, 76, 85, 69>> :> <<35, 48, 48, 65, 68, 70, 70>>) @@
    (<<71, 82, 69, 69, 78>> :> <<35, 66, 52, 70, 70, 48, 48>>) @@
    (<<87, 72, 73, 84, 69>> :> <<35, 70, 70, 70, 70, 70, 70>>) @@
    (<<89, 69, 76, 76, 79, 87>> :> <<35, 70, 70, 69, 66, 48, 48>>) @@
    (<<67, 89, 65, 78>> :> <<35, 48, 48, 70, 70, 70, 70>>) @@
    (<<77, 65, 71, 69, 78, 84, 65>> :> <<35, 70, 70, 48, 48, 70, 70>>) @@
    (<<79, 82, 65, 78, 71, 69>> :> <<35, 70, 70, 65, 53, 48, 48>>) @@
    (<<80, 85, 82, 80, 76, 69>> :> <<35, 56, 48, 48, 48, 56, 48>>) @@
    (<<80, 73, 78, 75>> :> <<35, 70, 70, 67, 48, 67, 66>>)

\* the characters 0-9 and A-F
HexDigits == (48..57) \cup (65..70)

\* re.match(r'^#[0-9A-F]{6}$', color)
MatchesHashHex(c) == Len(c) = 7 /\ c[1] = 35 /\ \A i \in 2..7 : c[i] \in HexDigits

\* re.match(r'^[0-9A-F]{6}$', color)
MatchesBareHex(c) == Len(c) = 6 /\ \A i \in 1..6 : c[i] \in HexDigits

\* the groups of a match of the parts of the text between the parentheses,
\* cut at the commas: (\d+), then twice \s*(\d+)
RgbGroups(parts) == <<parts[1], LStrip(parts[2]), LStrip(parts[3])>>

\* re.match(r'^\((\d+),\s*(\d+),\s*(\d+)\)$', color): [ok, groups]
RgbMatch(c) ==
    LET inner == SubSeq(c, 2, Len(c) - 1)
        parts == Split(inner, <<44>>, -1)
        shaped == /\ Len(c) >= 2 /\ c[1] = 40 /\ c[Len(c)] = 41
                  /\ Len(parts) = 3
                  /\ \A k \in 1..3 : IsDigits(RgbGroups(parts)[k])
    IN  IF shaped THEN [ok |-> TRUE, groups |-> RgbGroups(parts)]
        ELSE [ok |-> FALSE, groups |-> <<>>]

\* faulty variant: only the lower end of the range is tested
InByteRangeFromZero(x) == 0 <= x

\* 0 <= x <= 255
InByteRange(x) == 0 <= x /\ x <= 255

\* one digit of the format code x
HexDigitLower(d) == IF d < 10 THEN 48 + d ELSE 87 + d

RECURSIVE HexLower(_)
\* format(n, 'x')
HexLower(n) == IF n < 16 THEN <<HexDigitLower(n)>> ELSE HexLower(n \div 16) \o <<HexDigitLower(n % 16)>>

\* faulty variant: the value is formatted without padding
Hex02Unpadded(n) == HexLower(n)

\* format(n, '02x'): at least two digits, padded with 0
Hex02(n) == IF n < 16 THEN <<48>> \o HexLower(n) ELSE HexLower(n)

\* lines 51-56 for the groups of a match: the hex value, or <<>> when a
\* component is out of range and the function falls through
RgbToHex(groups) ==
    LET r == ToInt(groups[1])
        g == ToInt(groups[2])
        b == ToInt(groups[3])
    IN  IF InByteRange(r) /\ InByteRange(g) /\ InByteRange(b)
        THEN Upper(<<35>> \o Hex02(r) \o Hex02(g) \o Hex02(b))
        ELSE <<>>

\* lines 37-59 for the stripped, upper-cased token c
NormalizeStripped(c, rgb) ==
    IF c \in DOMAIN COLORS THEN COLORS[c]
    ELSE IF MatchesHashHex(c) THEN c
    ELSE IF MatchesBareHex(c) THEN <<35>> \o c
    ELSE IF rgb.ok /\ RgbToHex(rgb.groups) # <<>> THEN RgbToHex(rgb.groups)
    ELSE COLORS[<<87, 72, 73, 84, 69>>]

\* normalize_color(color); <<>> is None
normalize_color(token) ==
    IF token = <<>> THEN <<>>
    ELSE NormalizeStripped(Upper(Strip(token)), RgbMatch(Upper(Strip(token))))

(***************************************************************************)
(* The files on disk and the calls made on the session.                    *)
(***************************************************************************)
\* timecode lines: 1 s, 5 s, and 5 s written with one-digit fields
TC1 == <<48, 48, 58, 48, 48, 58, 48, 49, 44, 48, 48, 48, 32, 45, 45, 62, 32, 48, 48, 58, 48, 48, 58, 48, 50, 44, 48, 48, 48>>
TC5 == <<48, 48, 58, 48, 48, 58, 48, 53, 44, 48, 48, 48, 32, 45, 45, 62, 32, 48, 48, 58, 48, 48, 58, 48, 54, 44, 48, 48, 48>>
TC5short == <<48, 58, 48, 58, 53, 44, 48, 32, 45, 45, 62, 32, 48, 58, 48, 58, 55, 44, 48>>

Hello == <<72, 101, 108, 108, 111>>
Hi == <<72, 105>>
World == <<87, 111, 114, 108, 100>>
\* 'Hé', not encodable in ASCII
HeAcute == <<72, 233>>
\* 'no timecode'
NoTimecode == <<110, 111, 32, 116, 105, 109, 101, 99, 111, 100, 101>>

\* '{\an8}<font color="yellow">Hi</font>', a body that add has styled before
PreStyled ==
    <<123, 92, 97, 110, 56, 125, 60, 102, 111, 110, 116, 32, 99, 111, 108, 111, 114, 61, 34,
      121, 101, 108, 108, 111, 119, 34, 62, 72, 105, 60, 47, 102, 111, 110, 116, 62>>

\* one cue block: sequence number, timecode line, body, each ended by eol
Cue(n, tc, body, eol) == Str(n) \o eol \o tc \o eol \o body \o eol

Utf8(text) == PyEncode(text, "utf_8", "little").bytes

\* the content of the files, by address; exists = FALSE: no such file
Files ==
    [ en |-> [exists |-> TRUE,
              bytes |-> Utf8(Cue(1, TC1, Hello, NL) \o NL \o Cue(2, TC5, Hi, NL))],
      fr |-> [exists |-> TRUE, bytes |-> Utf8(Cue(1, TC5short, HeAcute, NL))],
      rev |-> [exists |-> TRUE,
               bytes |-> Utf8(Cue(1, TC5, World, NL) \o NL \o Cue(2, TC1, Hi, NL))],
      crlf |-> [exists |-> TRUE,
                bytes |-> Utf8(Cue(1, TC1, Hello, CRLF) \o CRLF \o Cue(2, TC5, World, CRLF))],
      bad |-> [exists |-> TRUE,
               bytes |-> Utf8(Cue(1, TC1, Hello, NL) \o NL \o <<50>> \o NL \o NoTimecode \o NL)],
      short |-> [exists |-> TRUE, bytes |-> Utf8(Cue(1, TC1, Hello, NL) \o NL \o <<50>>)],
      blank |-> [exists |-> TRUE, bytes |-> Utf8(<<32>> \o NL \o NL \o <<49>> \o NL \o TC1)],
      latin |-> [exists |-> TRUE, bytes |-> Cue(1, TC5, HeAcute, NL)],
      dup |-> [exists |-> TRUE,
               bytes |-> Utf8(Cue(1, TC1, Hello, NL) \o NL \o Cue(2, TC1, World, NL))],
      ws |-> [exists |-> TRUE,
              bytes |-> Utf8(Cue(1, TC1, <<32, 32>>, NL) \o NL \o Cue(2, TC5, Hi, NL))],
      pre |-> [exists |-> TRUE, bytes |-> Utf8(Cue(1, TC1, PreStyled, NL))],
      missing |-> [exists |-> FALSE, bytes |-> <<>>] ]

\* codec names
ENC_utf8 == <<117, 116, 102, 45, 56>>
ENC_UTF_8 == <<85, 84, 70, 95, 56>>
ENC_ascii == <<97, 115, 99, 105, 105>>
ENC_latin1 == <<108, 97, 116, 105, 110, 45, 49>>
ENC_utf16 == <<117, 116, 102, 45, 49, 54>>
ENC_UTF_16 == <<85, 84, 70, 32, 49, 54>>
ENC_utf16le == <<117, 116, 102, 45, 49, 54, 45, 108, 101>>
ENC_UTF16LE == <<85, 84, 70, 45, 49, 54, 76, 69>>
ENC_utf16be == <<117, 116, 102, 95, 49, 54, 95, 98, 101>>
ENC_utf32 == <<117, 116, 102, 45, 51, 50>>
ENC_utf32le == <<117, 116, 102, 45, 51, 50, 45, 108, 101>>
ENC_Utf32BE == <<85, 116, 102, 32, 51, 50, 32, 66, 69>>
ENC_utf64le == <<117, 116, 102, 45, 54, 52, 108, 101>>

\* 'yellow' and '20'
Yellow == <<121, 101, 108, 108, 111, 119>>
Size20 == <<50, 48>>

Call(address, codec, color, size, top) ==
    [address |-> address, codec |-> codec, color |-> color, size |-> size, top |-> top]

\* the add calls of the model; <<>> is None
Calls ==
    { Call("en", ENC_utf8, WHITE, <<>>, FALSE),
      Call("en", ENC_utf8, <<>>, <<>>, FALSE),
      Call("fr", ENC_utf8, <<>>, <<>>, FALSE),
      Call("fr", ENC_utf8, Yellow, Size20, TRUE),
      Call("rev", ENC_utf8, <<>>, <<>>, FALSE),
      Call("crlf", ENC_utf8, <<>>, <<>>, FALSE),
      Call("bad", ENC_utf8, <<>>, <<>>, FALSE),
      Call("short", ENC_utf8, <<>>, <<>>, FALSE),
      Call("blank", ENC_utf8, WHITE, <<>>, FALSE),
      Call("latin", ENC_utf8, <<>>, <<>>, FALSE),
      Call("latin", ENC_latin1, <<>>, <<>>, FALSE),
      Call("dup", ENC_utf8, <<>>, <<>>, FALSE),
      Call("ws", ENC_utf8, <<>>, <<>>, FALSE),
      Call("pre", ENC_utf8, Yellow, <<>>, TRUE),
      Call("missing", ENC_utf8, WHITE, <<>>, FALSE) }

\* output directories and the output name
DotDir == <<46>>
OutDir == <<111, 117, 116, 47>>
NoDir == <<110, 111, 100, 105, 114>>
NewSrt == <<110, 101, 119, 46, 115, 114, 116>>

\* the directories of the file system; NoDir is not one
DirExists(path) == path \in {DotDir, OutDir}

Session(path, name, encoding, order) ==
    [output_path |-> path, output_name |-> name, output_encoding |-> encoding,
     byteorder |-> order]

\* the arguments of the constructor and the byte order of the platform
Sessions ==
    { Session(DotDir, NewSrt, ENC_utf8, "little"),
      Session(OutDir, NewSrt, ENC_UTF_8, "big"),
      Session(NoDir, NewSrt, ENC_utf8, "little"),
      Session(DotDir, NewSrt, ENC_ascii, "little"),
      Session(DotDir, NewSrt, ENC_latin1, "big"),
      Session(DotDir, NewSrt, ENC_utf16, "little"),
      Session(DotDir, NewSrt, ENC_UTF_16, "big"),
      Session(DotDir, NewSrt, ENC_utf16le, "little"),
      Session(DotDir, NewSrt, ENC_UTF16LE, "big"),
      Session(DotDir, NewSrt, ENC_utf16be, "little"),
      Session(DotDir, NewSrt, ENC_utf32, "little"),
      Session(DotDir, NewSrt, ENC_utf32le, "big"),
      Session(DotDir, NewSrt, ENC_Utf32BE, "little"),
      Session(DotDir, NewSrt, ENC_utf64le, "little") }

(***************************************************************************)
(* Merger.add                                                              *)
(***************************************************************************)
\* Lines 217-222 for one call on a session that has indexed nothing yet:
\* the decoded text, its blocks and the result of _split_dialogs.
ReadAndSplit(call) ==
    LET file == Files[call.address]
        dec == PyDecode(file.bytes, LookupCodec(call.codec))
        dialogs == SplitBlocks(dec.text)
    IN  [exists |-> file.exists, decoded |-> dec.ok, data |-> dec.text,
         raw_dialogs |-> dialogs,
         st |-> IF file.exists /\ dec.ok
                THEN _split_dialogs([dialogs |-> <<>>, timestamps |-> <<>>, raised |-> ""],
                                    dialogs, call.color, call.size, call.top)
                ELSE [dialogs |-> <<>>, timestamps |-> <<>>, raised |-> ""]]

\* _split_dialogs reads nothing of the session and only appends to
\* self.timestamps, so what a call reads and indexes is the same in every
\* session state; it is tabulated per call.
Indexed == [call \in Calls |-> ReadAndSplit(call)]

\* faulty variant: the source is appended to self.subtitles even when the read or
\* the decode fails
AddEffectKeepsFailed(call, ts, subs) ==
    LET r == Indexed[call]
        subtitle == [address |-> call.address, codec |-> call.codec, color |-> call.color,
                     size |-> call.size, dialogs |-> r.st.dialogs, data |-> r.data,
                     raw_dialogs |-> r.raw_dialogs]
    IN  [timestamps |-> ts \o r.st.timestamps, subtitles |-> Append(subs, subtitle),
         outcome |-> IF ~r.exists THEN "FileNotFoundError"
                     ELSE IF ~r.decoded THEN "UnicodeDecodeError"
                     ELSE IF r.st.raised # "" THEN r.st.raised ELSE "ok"]

\* The effect of add(call), given r, what the call reads and indexes, on a
\* session whose lists are ts (self.timestamps) and subs (self.subtitles):
\* the new lists and the exception raised ("ok" when the call returns).
AddIndexed(r, call, ts, subs) ==
    LET subtitle == [address |-> call.address, codec |-> call.codec, color |-> call.color,
                     size |-> call.size, dialogs |-> r.st.dialogs, data |-> r.data,
                     raw_dialogs |-> r.raw_dialogs]
    IN  IF ~r.exists
        THEN [timestamps |-> ts, subtitles |-> subs, outcome |-> "FileNotFoundError"]
        ELSE IF ~r.decoded
        THEN [timestamps |-> ts, subtitles |-> subs, outcome |-> "UnicodeDecodeError"]
        ELSE IF r.st.raised # ""
        THEN [timestamps |-> ts \o r.st.timestamps, subtitles |-> subs,
              outcome |-> r.st.raised]
        ELSE [timestamps |-> ts \o r.st.timestamps, subtitles |-> Append(subs, subtitle),
              outcome |-> "ok"]

\* lines 210-223 for one call
AddEffect(call, ts, subs) == AddIndexed(Indexed[call], call, ts, subs)

add(call) ==
    /\ nAdds < MaxAdds
    /\ \E r \in {AddEffect(call, timestamps, subtitles)} :
           /\ timestamps' = r.timestamps
           /\ subtitles' = r.subtitles
           /\ ret' = [op |-> "add", outcome |-> r.outcome, value |-> <<>>]
    /\ nAdds' = nAdds + 1
    /\ UNCHANGED <<output_path, output_name, output_encoding, byteorder, lines, font_sizes,
                   outfile, emitted, colorVars, pairVars, workerVars>>

(***************************************************************************)
(* Merger.merge                                                            *)
(***************************************************************************)
RECURSIVE SortedDescending(_)
\* faulty variant: the timestamps are sorted in descending order
SortedDescending(S) ==
    IF S = {} THEN <<>>
    ELSE LET m == CHOOSE x \in S : \A y \in S : y <= x
         IN  <<m>> \o SortedDescending(S \ {m})

RECURSIVE SortedSeq(_)
\* list(set(...)) followed by list.sort(): the elements of S, ascending
SortedSeq(S) ==
    IF S = {} THEN <<>>
    ELSE LET m == CHOOSE x \in S : \A y \in S : x <= y
         IN  <<m>> \o SortedSeq(S \ {m})

SeqToSet(s) == {s[i] : i \in 1..Len(s)}

\* faulty variant: the sources are visited last-added first
SourceOrderReversed(subs) == [i \in 1..Len(subs) |-> Len(subs) + 1 - i]

\* faulty variant: only the source added first is visited
SourceOrderFirstOnly(subs) == [i \in 1..(IF subs = <<>> THEN 0 ELSE 1) |-> i]

\* faulty variant: the source added last is visited first, then the others
SourceOrderLastFirst(subs) ==
    [i \in 1..Len(subs) |-> IF i = 1 THEN Len(subs) ELSE i - 1]

\* the sources visited for one timestamp: every source, in the order of self.subtitles
SourceOrder(subs) == [i \in 1..Len(subs) |-> i]

\* lines 238-251: the element appended to self.lines for the entry text of
\* one source, numbered count; raised # "" when the statement raises
MergeBlock(count, text, encoding, order) ==
    LET codec == LookupCodec(encoding)
        line == _encode(Replace(text, NL \o NL, <<>>, -1), encoding, order)
        num == PyEncode(Str(count), codec, order)
        eol == PyEncode(NL, codec, order)
        first == _insert_bom(num.bytes, encoding, order)
    IN  IF line.raised # "" THEN [raised |-> line.raised, bytes |-> <<>>]
        ELSE IF ~num.ok THEN [raised |-> "LookupError", bytes |-> <<>>]
        ELSE IF count = 1
        THEN IF first.raised # "" THEN [raised |-> first.raised, bytes |-> <<>>]
             ELSE [raised |-> "", bytes |-> first.bytes \o eol.bytes \o line.bytes]
        ELSE [raised |-> "", bytes |-> eol.bytes \o num.bytes \o eol.bytes \o line.bytes]

\* faulty variant: count is not incremented
NextCountStuck(count) == count

\* faulty variant: count is incremented once more for a numbered block
NextCountSkipping(count) == count + 2

\* the increment of count after a block is appended (line 252)
NextCount(count) == count + 1

\* faulty variant: the line break is appended to the entry at every merge
AppendLineBreak(d, t) == DictSet(d, t, d[t] \o NL)

\* lines 247-248: an entry that does not end with a line break is given one
EnsureFinalLineBreak(d, t) ==
    IF EndsWith(d[t], NL) THEN d ELSE DictSet(d, t, d[t] \o NL)

RECURSIVE MergeSources(_, _, _, _, _)
\* lines 236-252 for the timestamp t and the sources order (indices into
\* m.subtitles) still to visit; m = [lines, emitted, subtitles, count, raised]
MergeSources(m, t, order_, encoding, order) ==
    IF order_ = <<>> \/ m.raised # "" THEN m
    ELSE LET i == Head(order_)
             d == m.subtitles[i].dialogs
             b == MergeBlock(m.count, d[t], encoding, order)
             fixed == EnsureFinalLineBreak(d, t)
             m1 == IF t \notin DOMAIN d THEN m
                   ELSE IF b.raised # "" THEN [m EXCEPT !.raised = b.raised]
                   ELSE [m EXCEPT !.lines = Append(m.lines, b.bytes),
                                  !.emitted = Append(m.emitted, [t |-> t, sub |-> i]),
                                  !.subtitles[i].dialogs = fixed,
                                  !.count = NextCount(m.count)]
         IN  MergeSources(m1, t, Tail(order_), encoding, order)

RECURSIVE MergeTimes(_, _, _, _)
\* lines 235-252: the outer loop over the timestamps ts
MergeTimes(m, ts, encoding, order) ==
    IF ts = <<>> \/ m.raised # "" THEN m
    ELSE MergeTimes(MergeSources(m, Head(ts), SourceOrder(m.subtitles), encoding, order),
                    Tail(ts), encoding, order)

\* faulty variant: the trim is skipped when self.lines is empty
TrimLastGuarded(ls) ==
    LET n == Len(ls)
        b == IF EndsWith(ls[n], <<10>>) THEN SubSeq(ls[n], 1, Len(ls[n]) - 1) ELSE ls[n]
    IN  IF ls = <<>> THEN [raised |-> "", lines |-> ls]
        ELSE [raised |-> "", lines |-> [ls EXCEPT ![n] = b]]

\* lines 253-256: the trim of the last element of self.lines; [raised, lines].
\* On an empty list self.lines[-1] raises IndexError.
TrimLast(ls) ==
    LET n == Len(ls)
        a == IF EndsWith(ls[n], <<0, 10, 0>>)
             THEN SubSeq(ls[n], 1, Len(ls[n]) - 3) \o <<0>> ELSE ls[n]
        b == IF EndsWith(a, <<10>>) THEN SubSeq(a, 1, Len(a) - 1) ELSE a
    IN  IF ls = <<>> THEN [raised |-> "IndexError", lines |-> ls]
        ELSE [raised |-> "", lines |-> [ls EXCEPT ![n] = b]]

\* the value merge returns when it succeeds: the method has no return
\* statement, so it is None whatever the path written
MergeReturnValue(path) == <<>>

\* Lines 257-259 after the loop and the trim: the file is written unless
\* open() raises, which it does when the output directory does not exist.
WriteOutput(base, trimmed, path, name) ==
    IF trimmed.raised # "" THEN base @@ [outcome |-> trimmed.raised]
    ELSE IF ~DirExists(path)
    THEN [base EXCEPT !.lines = trimmed.lines] @@ [outcome |-> "FileNotFoundError"]
    ELSE [base EXCEPT !.lines = trimmed.lines, !.written = TRUE,
                      !.value = MergeReturnValue(get_output_path(path, name))]
         @@ [outcome |-> "ok"]

\* lines 231-256 once the loop has run to m
AfterLoop(m, sorted, path, name) ==
    LET base == [timestamps |-> sorted, subtitles |-> m.subtitles, lines |-> m.lines,
                 emitted |-> m.emitted, written |-> FALSE, value |-> <<>>]
    IN  IF m.raised # "" THEN base @@ [outcome |-> m.raised]
        ELSE WriteOutput(base, TrimLast(m.lines), path, name)

\* The effect of merge(): the new session lists, the lines, the exception
\* raised ("ok" when the call returns) and whether the file was written.
MergeEffect(ts, subs, path, name, encoding, order) ==
    LET sorted == SortedSeq(SeqToSet(ts))
    IN  AfterLoop(MergeTimes([lines |-> <<>>, emitted |-> <<>>, subtitles |-> subs,
                              count |-> 1, raised |-> ""], sorted, encoding, order),
                  sorted, path, name)

merge ==
    /\ \E r \in {MergeEffect(timestamps, subtitles, output_path, output_name,
                            output_encoding, byteorder)} :
           /\ timestamps' = r.timestamps
           /\ subtitles' = r.subtitles
           /\ lines' = r.lines
           /\ emitted' = r.emitted
           /\ outfile' = IF r.written
                         THEN [exists |-> TRUE,
                               path |-> get_output_path(output_path, output_name),
                               data |-> Concat(r.lines)]
                         ELSE outfile
           /\ ret' = [op |-> "merge", outcome |-> r.outcome, value |-> r.value]
    /\ UNCHANGED <<output_path, output_name, output_encoding, byteorder, font_sizes, nAdds,
                   colorVars, pairVars, workerVars>>

\* no batch is in play
NoWorker == worker = <<>> /\ signals = <<>>

\* no second session is in play
NoPair == mergers = <<>> /\ lists = <<>>

(***************************************************************************)
(* Merger.__init__ and the specification.                                  *)
(***************************************************************************)
Init ==
    /\ \E c \in Sessions :
          /\ output_path = c.output_path
          /\ output_name = c.output_name
          /\ output_encoding = c.output_encoding
          /\ byteorder = c.byteorder
    /\ timestamps = <<>>
    /\ subtitles = <<>>
    /\ lines = <<>>
    /\ font_sizes = <<>>
    /\ outfile = [exists |-> FALSE, path |-> <<>>, data |-> <<>>]
    /\ emitted = <<>>
    /\ ret = [op |-> "init", outcome |-> "ok", value |-> <<>>]
    /\ nAdds = 0
    /\ color_arg = <<>>
    /\ color_ret = [done |-> FALSE, value |-> <<>>]
    /\ NoPair
    /\ NoWorker

Next ==
    \/ \E call \in Calls : add(call)
    \/ merge

Spec == Init /\ [][Next]_vars

(***************************************************************************)
(* normalize_color as a call of its own: the argument is drawn from the    *)
(* tokens below and the call returns its result.                           *)
(***************************************************************************)
\* the components of the RGB triples of the model
Components == {0, 7, 16, 171, 255, 256}

\* the whitespace written after the commas of a triple
Gaps == {<<>>, <<32>>}

\* the token "(r,g,b)" in decimal notation, gap after each comma
RgbToken(r, g, b, gap) ==
    <<40>> \o Str(r) \o <<44>> \o gap \o Str(g) \o <<44>> \o gap \o Str(b) \o <<41>>

RgbTokens == {RgbToken(r, g, b, gap) : r \in Components, g \in Components, b \in Components, gap \in Gaps}

\* color names, hex values and malformed tokens: 'red', ' Red ', 'YELLOW', 'pink\n', 'cyan1', 'whit', '#ff00aa', '#FF00AA ', ' 00adff', 'B4FF00', '#fff', '#ff00aaa', 'ff00ag', '12345', '1234567', '( 1,2,3)', '(1 ,2,3)', '(1,2)', '(1,2,3,)', '(1,2,3', '1,2,3', '(-1,2,3)', '(1.0,2,3)', '(007,2,3)', ' (1,\t2,\n3) ', '(1,2,3 )', '  ', 'x', '(a,b,c)', '()'
OtherTokens ==
    {<<>>,
      <<114, 101, 100>>,
      <<32, 82, 101, 100, 32>>,
      <<89, 69, 76, 76, 79, 87>>,
      <<112, 105, 110, 107, 10>>,
      <<99, 121, 97, 110, 49>>,
      <<119, 104, 105, 116>>,
      <<35, 102, 102, 48, 48, 97, 97>>,
      <<35, 70, 70, 48, 48, 65, 65, 32>>,
      <<32, 48, 48, 97, 100, 102, 102>>,
      <<66, 52, 70, 70, 48, 48>>,
      <<35, 102, 102, 102>>,
      <<35, 102, 102, 48, 48, 97, 97, 97>>,
      <<102, 102, 48, 48, 97, 103>>,
      <<49, 50, 51, 52, 53>>,
      <<49, 50, 51, 52, 53, 54, 55>>,
      <<40, 32, 49, 44, 50, 44, 51, 41>>,
      <<40, 49, 32, 44, 50, 44, 51, 41>>,
      <<40, 49, 44, 50, 41>>,
      <<40, 49, 44, 50, 44, 51, 44, 41>>,
      <<40, 49, 44, 50, 44, 51>>,
      <<49, 44, 50, 44, 51>>,
      <<40, 45, 49, 44, 50, 44, 51, 41>>,
      <<40, 49, 46, 48, 44, 50, 44, 51, 41>>,
      <<40, 48, 48, 55, 44, 50, 44, 51, 41>>,
      <<32, 40, 49, 44, 9, 50, 44, 10, 51, 41, 32>>,
      <<40, 49, 44, 50, 44, 51, 32, 41>>,
      <<32, 32>>,
      <<120>>,
      <<40, 97, 44, 98, 44, 99, 41>>,
      <<40, 41>>}

ColorTokens == RgbTokens \cup OtherTokens

IdleSession ==
    /\ output_path = DotDir
    /\ output_name = NewSrt
    /\ output_encoding = ENC_utf8
    /\ byteorder = "little"
    /\ timestamps = <<>>
    /\ subtitles = <<>>
    /\ lines = <<>>
    /\ font_sizes = <<>>
    /\ outfile = [exists |-> FALSE, path |-> <<>>, data |-> <<>>]
    /\ emitted = <<>>
    /\ ret = [op |-> "init", outcome |-> "ok", value |-> <<>>]
    /\ nAdds = 0

InitColor ==
    /\ IdleSession
    /\ color_arg \in ColorTokens
    /\ color_ret = [done |-> FALSE, value |-> <<>>]
    /\ NoPair
    /\ NoWorker

NormalizeColor ==
    /\ ~color_ret.done
    /\ color_ret' = [done |-> TRUE, value |-> normalize_color(color_arg)]
    /\ UNCHANGED <<sessionVars, color_arg, pairVars, workerVars>>

NextColor == NormalizeColor

SpecColor == InitColor /\ [][NextColor]_vars

(***************************************************************************)
(* Two Merger instances in one process, their calls interleaved.  Each      *)
(* instance reads and writes the list objects its attributes are bound to; *)
(* the file system (outfile) is the one thing the instances have in        *)
(* common.                                                                 *)
(***************************************************************************)
\* the number of calls made on each instance
MaxPairOps == 2

\* the add calls made on the instances
PairCalls ==
    { Call("en", ENC_utf8, <<>>, <<>>, FALSE),
      Call("fr", ENC_utf8, Yellow, Size20, TRUE),
      Call("bad", ENC_utf8, <<>>, <<>>, FALSE) }

\* the constructor arguments of the two instances
PairSessions ==
    { <<Session(DotDir, NewSrt, ENC_utf8, "little"), Session(DotDir, NewSrt, ENC_utf8, "little")>>,
      <<Session(DotDir, NewSrt, ENC_ascii, "little"), Session(OutDir, NewSrt, ENC_utf16, "little")>> }

\* a call on an instance, the at-th call made in the process
AddOp(call, at) == [kind |-> "add", call |-> call, at |-> at]

MergeOp(at) == [kind |-> "merge", call |-> Call("", <<>>, <<>>, <<>>, FALSE), at |-> at]

\* lines 69-71: the lists a new instance starts with
EmptyLists == [timestamps |-> <<>>, subtitles |-> <<>>, lines |-> <<>>]

\* nothing written yet
NoOutput == [exists |-> FALSE, path |-> <<>>, data |-> <<>>]

\* faulty variant: the lists are bound once, for the class
ListCellOfClass(k) == 1

\* lines 69-71: __init__ binds the attributes of instance k to list
\* objects made for it
ListCell(k) == k

\* the lists and the output after add returned or raised with the effect r
AfterAdd(r, l, written) ==
    [lists |-> [timestamps |-> r.timestamps, subtitles |-> r.subtitles, lines |-> l.lines],
     written |-> written, wrote |-> FALSE]

\* the lists and the output after merge returned or raised with the effect r
AfterMerge(r, args, written) ==
    [lists |-> [timestamps |-> r.timestamps, subtitles |-> r.subtitles, lines |-> r.lines],
     written |-> IF r.written
                 THEN [exists |-> TRUE,
                       path |-> get_output_path(args.output_path, args.output_name),
                       data |-> Concat(r.lines)]
                 ELSE written,
     wrote |-> r.written]

\* the call op made on an instance constructed with args whose lists are l
\* and whose last output is written: [lists, written, wrote]
OpEffect(l, written, op, args) ==
    IF op.kind = "add"
    THEN AfterAdd(AddEffect(op.call, l.timestamps, l.subtitles), l, written)
    ELSE AfterMerge(MergeEffect(l.timestamps, l.subtitles, args.output_path,
                                args.output_name, args.output_encoding, args.byteorder),
                    args, written)

\* the number of calls made in the process
CallsMade == Len(mergers[1].calls) + Len(mergers[2].calls)

PairCall(k, op) ==
    /\ Len(mergers[k].calls) < MaxPairOps
    /\ \E e \in {OpEffect(lists[ListCell(k)], mergers[k].written, op, mergers[k].args)} :
          /\ lists' = [lists EXCEPT ![ListCell(k)] = e.lists]
          /\ mergers' = [mergers EXCEPT ![k].calls = Append(@, op),
                                        ![k].written = e.written]
          /\ outfile' = IF e.wrote THEN e.written ELSE outfile
    /\ UNCHANGED <<output_path, output_name, output_encoding, byteorder, timestamps,
                   subtitles, lines, font_sizes, emitted, ret, nAdds, colorVars, workerVars>>

PairAdd(k, call) == PairCall(k, AddOp(call, CallsMade + 1))

PairMerge(k) == PairCall(k, MergeOp(CallsMade + 1))

InitPair ==
    /\ IdleSession
    /\ color_arg = <<>>
    /\ color_ret = [done |-> FALSE, value |-> <<>>]
    /\ \E p \in PairSessions :
          mergers = [k \in 1..2 |-> [args |-> p[k], calls |-> <<>>, written |-> NoOutput]]
    /\ lists = [k \in 1..2 |-> EmptyLists]
    /\ NoWorker

NextPair ==
    \/ \E k \in 1..2, call \in PairCalls : PairAdd(k, call)
    \/ \E k \in 1..2 : PairMerge(k)

SpecPair == InitPair /\ [][NextPair]_vars

(***************************************************************************)
(* MergeWorker (src/qt.py lines 51-99, the same code in src/ui.py lines     *)
(* 47-95): a thread whose run() merges a list of episodes, one Merger per  *)
(* episode, and reports by signals; stop() is called from the thread of    *)
(* the window.  One action per statement of run(), so that stop() can      *)
(* fall between any two of them.  The handler of lines 92-93 has no        *)
(* action: nothing outside the inner try raises for a list of matches.     *)
(***************************************************************************)
\* the number of episodes of a batch
MaxEpisodes == 2

\* the arguments the window gives the worker (qt.py lines 388-394)
MergerArgs == [color |-> WHITE, codec |-> ENC_utf8]

\* the files of an episode: both readable, the first or the second
\* missing, or both without a cue (merge then raises IndexError)
EpisodeFiles == {<<"en", "en">>, <<"missing", "en">>, <<"en", "missing">>, <<"blank", "blank">>}

EpisodeMatch(num, files) ==
    [episode_num |-> num, sub1_path |-> files[1], sub2_path |-> files[2]]

\* the lists of matches a worker is constructed with
MatchLists ==
    UNION {{[k \in 1..n |-> EpisodeMatch(k, fl[k])] : fl \in [1..n -> EpisodeFiles]} :
           n \in 0..MaxEpisodes}

ProcessingText == "Processing episode"
SuccessText == "Successfully merged episode"
ErrorText == "Error merging episode"

\* self.progress.emit(...), self.error.emit(...), self.finished.emit()
Progress(text, num) == [signal |-> "progress", text |-> text, episode |-> num]

ErrorSignal(num) == [signal |-> "error", text |-> ErrorText, episode |-> num]

FinishedSignal == [signal |-> "finished", text |-> "", episode |-> 0]

\* the add calls of lines 75-79: the first with the worker's arguments, the
\* second with the defaults of add
FirstAdd(match, args) == Call(match.sub1_path, args.codec, args.color, <<>>, FALSE)

SecondAdd(match) == Call(match.sub2_path, ENC_utf8, WHITE, <<>>, FALSE)

\* faulty variant: the flag is not read
NeverBreak(is_running) == FALSE

\* lines 66-67: if not self.is_running: break
ShouldBreak(is_running) == ~is_running

\* faulty variant: the handler leaves the loop, as a break would
AbandonBatch(i, n) == n + 1

\* line 90: continue, on to the match after the i-th of n
NextEpisode(i, n) == i + 1

\* line 73: merger = Merger(output_name=...), a new instance with empty
\* lists whatever the instance of the episode before holds
FreshMerger(previous) == EmptyLists

\* faulty variant: the signal is emitted at the end of the loop and again
\* in the finally clause
FinallyTwice(sigs) == sigs \o <<FinishedSignal, FinishedSignal>>

\* lines 95-96: finally: self.finished.emit()
Finally(sigs) == Append(sigs, FinishedSignal)

\* the match of the iteration in progress
Match == worker.matches[worker.i]

\* the worker is at the statement at
At(at) == worker # <<>> /\ worker.pc = at

UnchangedOutside == UNCHANGED <<sessionVars, colorVars, pairVars>>

\* QThread.start(): run() begins (qt.py line 665)
start ==
    /\ At("idle")
    /\ worker' = [worker EXCEPT !.pc = "for"]
    /\ UNCHANGED signals
    /\ UnchangedOutside

\* lines 98-99, at any moment; stopped_at and stopped_pc record the moment
\* of the first call
stop ==
    /\ worker # <<>>
    /\ worker' = [worker EXCEPT !.is_running = FALSE,
                                !.stopped_at = IF @ = -1 THEN Len(signals) ELSE @,
                                !.stopped_pc = IF worker.stopped_at = -1 THEN worker.pc ELSE @]
    /\ UNCHANGED signals
    /\ UnchangedOutside

\* lines 65-67: the next match, if there is one and the flag is set
LoopHead ==
    /\ At("for")
    /\ worker' = [worker EXCEPT !.pc = IF \/ worker.i > Len(worker.matches)
                                         \/ ShouldBreak(worker.is_running)
                                      THEN "finally" ELSE "processing"]
    /\ UNCHANGED signals
    /\ UnchangedOutside

\* line 70
EmitProcessing ==
    /\ At("processing")
    /\ signals' = Append(signals, Progress(ProcessingText, Match.episode_num))
    /\ worker' = [worker EXCEPT !.pc = "create"]
    /\ UnchangedOutside

\* line 73
CreateMerger ==
    /\ At("create")
    /\ worker' = [worker EXCEPT !.merger = FreshMerger(@), !.pc = "add1"]
    /\ UNCHANGED signals
    /\ UnchangedOutside

\* merger.add(...) at the statement at: on to the statement next, or to
\* the handler of line 88 when the call raises
WorkerAdd(at, call, next) ==
    /\ At(at)
    /\ \E r \in {AddEffect(call, worker.merger.timestamps, worker.merger.subtitles)} :
          worker' = [worker EXCEPT !.merger.timestamps = r.timestamps,
                                   !.merger.subtitles = r.subtitles,
                                   !.pc = IF r.outcome = "ok" THEN next ELSE "except"]
    /\ UNCHANGED signals
    /\ UnchangedOutside

\* lines 75-78
AddSub1 == WorkerAdd("add1", FirstAdd(Match, worker.merger_args), "add2")

\* line 79
AddSub2 == WorkerAdd("add2", SecondAdd(Match), "merge")

\* the lists of a new Merger after the two add calls of an episode have
\* returned
EpisodeLists ==
    {[timestamps |-> second.timestamps, subtitles |-> second.subtitles, lines |-> <<>>] :
        second \in UNION {{AddEffect(SecondAdd(EpisodeMatch(1, files)), first.timestamps,
                                     first.subtitles) :
                              first \in {AddEffect(FirstAdd(EpisodeMatch(1, files), MergerArgs),
                                                   <<>>, <<>>)}} :
                          files \in EpisodeFiles}}

\* merge() of a Merger with the default output path and encoding
DefaultMerge(l) ==
    MergeEffect(l.timestamps, l.subtitles, DotDir, NewSrt, ENC_utf8, "little")

\* DefaultMerge, tabulated for the lists of an episode as Indexed is for the
\* add calls
MergeTable == [l \in EpisodeLists |-> DefaultMerge(l)]

\* line 82: merger.merge() on the lists l of the episode
WorkerMerge(l) == MergeTable[l]

\* line 82; outputs records what each episode wrote
MergeSubs ==
    /\ At("merge")
    /\ \E r \in {WorkerMerge(worker.merger)} :
          worker' = [worker EXCEPT !.merger = [timestamps |-> r.timestamps,
                                               subtitles |-> r.subtitles,
                                               lines |-> r.lines],
                                   !.outputs = IF r.written
                                               THEN Append(@, [episode |-> Match.episode_num,
                                                               data |-> Concat(r.lines)])
                                               ELSE @,
                                   !.pc = IF r.outcome = "ok" THEN "success" ELSE "except"]
    /\ UNCHANGED signals
    /\ UnchangedOutside

\* lines 84-86, and on to the next iteration
EmitSuccess ==
    /\ At("success")
    /\ signals' = Append(signals, Progress(SuccessText, Match.episode_num))
    /\ worker' = [worker EXCEPT !.i = @ + 1, !.pc = "for"]
    /\ UnchangedOutside

\* lines 88-90: except Exception: self.error.emit(...); continue
Except ==
    /\ At("except")
    /\ signals' = Append(signals, ErrorSignal(Match.episode_num))
    /\ worker' = [worker EXCEPT !.i = NextEpisode(@, Len(worker.matches)), !.pc = "for"]
    /\ UnchangedOutside

\* lines 95-96; run() returns
EmitFinished ==
    /\ At("finally")
    /\ signals' = Finally(signals)
    /\ worker' = [worker EXCEPT !.pc = "done"]
    /\ UnchangedOutside

\* lines 57-61: MergeWorker.__init__
InitWorker ==
    /\ IdleSession
    /\ color_arg = <<>>
    /\ color_ret = [done |-> FALSE, value |-> <<>>]
    /\ NoPair
    /\ \E matches \in MatchLists :
          worker = [matches |-> matches, merger_args |-> MergerArgs, is_running |-> TRUE,
                    pc |-> "idle", i |-> 1, merger |-> EmptyLists, outputs |-> <<>>,
                    stopped_at |-> -1, stopped_pc |-> ""]
    /\ signals = <<>>

\* the statements of run()
RunStep ==
    \/ LoopHead
    \/ EmitProcessing
    \/ CreateMerger
    \/ AddSub1
    \/ AddSub2
    \/ MergeSubs
    \/ EmitSuccess
    \/ Except
    \/ EmitFinished

NextWorker ==
    \/ start
    \/ stop
    \/ RunStep

SpecWorker == InitWorker /\ [][NextWorker]_vars

\* a started thread is scheduled until run() returns, and every statement
\* of run() returns: the loop is over a finite list and add and merge read
\* and write files without waiting on anything
SpecWorkerFair == SpecWorker /\ WF_vars(RunStep)

(***************************************************************************)
(* Vocabulary of the properties.  After a merge call self.subtitles holds *)
(* the sources that were merged, emitted[i] names the start-time and the   *)
(* source of the i-th output cue and lines[i] holds its bytes.             *)
(***************************************************************************)
\* the state right after a merge call that returned normally
Merged == ret.op = "merge" /\ ret.outcome = "ok"

\* the sources (by position in add order) with an entry at start-time t
Contributors(t) == {i \in 1..Len(subtitles) : t \in DOMAIN subtitles[i].dialogs}

\* the start-times indexed by the sources of the session
AllTimes == UNION {DOMAIN subtitles[i].dialogs : i \in 1..Len(subtitles)}

SharedTimes == {t \in AllTimes : Cardinality(Contributors(t)) >= 2}

\* the number of (source, start-time) entries of the session
RECURSIVE CountEntries(_)
CountEntries(n) ==
    IF n = 0 THEN 0 ELSE CountEntries(n - 1) + Cardinality(DOMAIN subtitles[n].dialogs)

\* the output cues emitted for start-time t
CuesAt(t) == {i \in 1..Len(emitted) : emitted[i].t = t}

\* the entry (timecode line, styled text) the i-th output cue was emitted for
Entry(i) == subtitles[emitted[i].sub].dialogs[emitted[i].t]

TimecodeLine(entry) == Split(entry, NL, 1)[1]

StyledText(entry) == LET rest == Split(entry, NL, 1)[2] IN SubSeq(rest, 1, Len(rest) - 1)

\* the start-time written on a timecode line
StartKey(tc) == ParseTimestamp(Strip(Split(tc, ARROW, -1)[1]))

Contains(s, p) == p = <<>> \/ Find(s, p, 1) # 0

OutCodec == LookupCodec(output_encoding)

Bytes(text) == PyEncode(text, OutCodec, byteorder)

\* the bytes of a block's content: the encoded entry, or the placeholder
\* when the entry cannot be encoded
EncodedEntry(entry) ==
    LET b == Bytes(Replace(entry, NL \o NL, <<>>, -1))
    IN  IF b.ok THEN b.bytes ELSE EncodeErrorBytes

\* lines[i] ends with the content of entry, less the bytes of the final
\* line break that merge trims from the last block
CarriesEntry(i, entry) ==
    \E cut \in 0..2 :
        /\ cut > 0 => i = Len(lines) /\ Bytes(entry).ok
        /\ EndsWith(lines[i], SubSeq(EncodedEntry(entry), 1, Len(EncodedEntry(entry)) - cut))

AnyBom == {BOM_UTF8, BOM_UTF16_LE, BOM_UTF16_BE, BOM_UTF32_LE, BOM_UTF32_BE}

\* lines[i] starts with the sequence number i on a line of its own, after
\* the separating line break (or, for the first block, after a possible mark)
Numbered(i) ==
    \E pre \in (IF i = 1 THEN AnyBom \cup {<<>>} ELSE {Bytes(NL).bytes}) :
        StartsWith(lines[i], pre \o Bytes(Str(i)).bytes \o Bytes(NL).bytes)

RECURSIVE JoinLines(_)
JoinLines(texts) ==
    IF Len(texts) = 1 THEN texts[1] ELSE texts[1] \o NL \o JoinLines(Tail(texts))

\* the texts of the contributors of t joined by line breaks, in add order
JoinedText(t) ==
    LET who == SortedSeq(Contributors(t))
    IN  JoinLines([k \in 1..Len(who) |-> StyledText(subtitles[who[k]].dialogs[t])])

AddStep == ret'.op = "add" /\ nAdds' = nAdds + 1

\* the exceptions of add that come from reading or decoding the file
ReadErrors == {"FileNotFoundError", "UnicodeDecodeError"}

C5_EmptySessionFails ==
    (ret.op = "merge" /\ AllTimes = {}) =>
        /\ ret.outcome = "IndexError"
        /\ lines = <<>>
        /\ ~outfile.exists

\* C5 witness: merge has failed on a session that holds a source, none of
\* whose blocks is a valid cue
C5_Witness ==
    /\ ret.op = "merge"
    /\ ret.outcome = "IndexError"
    /\ Len(subtitles) >= 1
    /\ AllTimes = {}
    /\ ~outfile.exists

(***************************************************************************)
(* C6.  Original claim: a successful merge returns the final output file   *)
(* path, the output path joined to the output name by exactly one '/'.     *)
(***************************************************************************)
\* output_path without the '/' it may end with
PathStem == IF EndsWith(output_path, SLASH)
            THEN SubSeq(output_path, 1, Len(output_path) - 1) ELSE output_path

C6_ReturnsOutputPath ==
    Merged => ret.value = PathStem \o SLASH \o output_name

\* C6 as amended: a successful merge returns nothing (None); the file it
\* has written is at the output path joined to the output name by exactly
\* one '/', which is inserted only when the output path does not end
\* with one.
C6_WritesAtJoinedPath ==
    Merged =>
        /\ ret.value = <<>>
        /\ outfile.exists
        /\ outfile.path = PathStem \o SLASH \o output_name
        /\ outfile.data = Concat(lines)

\* C6 witness: a successful merge of a session whose output path ends
\* with '/'
C6_Witness ==
    /\ Merged
    /\ EndsWith(output_path, SLASH)
    /\ outfile.exists
    /\ lines # <<>>

(***************************************************************************)
(* C7.  An add call that fails with a decode error or an I/O error leaves  *)
(* the session as it was before the call: the source list, the timeline,   *)
(* the merged lines and the output file are unchanged, so that the other   *)
(* sources merge as if the call had not been made.                         *)
(***************************************************************************)
C7_FailedAddLeavesSession ==
    [][(AddStep /\ ret'.outcome \in ReadErrors) =>
          /\ timestamps' = timestamps
          /\ subtitles' = subtitles
          /\ lines' = lines
          /\ emitted' = emitted
          /\ outfile' = outfile]_vars

\* C7 witness: an add call has failed with a decode error on a session that
\* holds a source added before it
C7_Witness ==
    /\ ret.op = "add"
    /\ ret.outcome = "UnicodeDecodeError"
    /\ Len(subtitles) >= 1
    /\ timestamps # <<>>

\* the entries of the sources of the session
AllEntries ==
    UNION {{subtitles[i].dialogs[t] : t \in DOMAIN subtitles[i].dialogs} :
           i \in 1..Len(subtitles)}

\* the text of entry, as merge serializes it, cannot be encoded
Unencodable(entry) == ~Bytes(Replace(entry, NL \o NL, <<>>, -1)).ok

\* merge did not abort in its loop: it returned, or failed to open the file
LoopCompleted == ret.outcome \in {"ok", "FileNotFoundError"}

\* every entry of the session is a numbered block of self.lines
AllBlocksNumbered ==
    /\ Len(lines) = CountEntries(Len(subtitles))
    /\ Len(emitted) = Len(lines)
    /\ \A i \in 1..Len(lines) : Numbered(i)

(***************************************************************************)
(* C8.  Original claim: if encoding one block's text in the output         *)
(* encoding fails, merge substitutes the placeholder for that block and    *)
(* continues; merge does not abort and every other block is still          *)
(* encoded, numbered and written.                                          *)
(***************************************************************************)
C8_EncodeFailureNeverAborts ==
    (ret.op = "merge" /\ \E entry \in AllEntries : Unencodable(entry)) =>
        /\ LoopCompleted
        /\ AllBlocksNumbered
        /\ \A i \in 1..Len(lines) : CarriesEntry(i, Entry(i))

\* C8 as amended: when the output encoding is one the codec registry knows
\* and a block's text cannot be represented in it, merge substitutes the
\* placeholder for that block and continues: the loop runs to its end,
\* every block is numbered, every other block carries its encoded entry,
\* and the lines are written whenever the output file can be opened.  (An
\* output encoding the registry does not know aborts merge at the first
\* sequence number.)
C8_PlaceholderForUnencodable ==
    (ret.op = "merge" /\ OutCodec # "unknown"
        /\ \E entry \in AllEntries : Unencodable(entry)) =>
        /\ LoopCompleted
        /\ ret.outcome = "ok" <=> DirExists(output_path)
        /\ AllBlocksNumbered
        /\ \A i \in 1..Len(lines) :
              /\ CarriesEntry(i, Entry(i))
              /\ Unencodable(Entry(i)) => EndsWith(lines[i], EncodeErrorBytes)
        /\ ret.outcome = "ok" => outfile.data = Concat(lines)

\* C8 witness: a merge has written a block that holds the placeholder and,
\* after it, a block that holds its encoded entry
C8_Witness ==
    /\ Merged
    /\ OutCodec # "unknown"
    /\ \E i, j \in 1..Len(lines) :
          /\ i < j
          /\ Unencodable(Entry(i))
          /\ EndsWith(lines[i], EncodeErrorBytes)
          /\ ~Unencodable(Entry(j))
    /\ outfile.data = Concat(lines)

\* the output encodings of a family that bears a byte-order-mark
BomFamilies == {"utf_8", "utf_16", "utf_16_le", "utf_16_be", "utf_32", "utf_32_le", "utf_32_be"}

\* the standard marks of a family; a generic family takes either byte order
StandardBoms(codec) ==
    CASE codec = "utf_8" -> {BOM_UTF8}
      [] codec = "utf_16_le" -> {BOM_UTF16_LE}
      [] codec = "utf_16_be" -> {BOM_UTF16_BE}
      [] codec = "utf_16" -> {BOM_UTF16_LE, BOM_UTF16_BE}
      [] codec = "utf_32_le" -> {BOM_UTF32_LE}
      [] codec = "utf_32_be" -> {BOM_UTF32_BE}
      [] codec = "utf_32" -> {BOM_UTF32_LE, BOM_UTF32_BE}
      [] OTHER -> {}

\* the positions of the stream at which the bytes of mark occur
Occurrences(data, mark) ==
    {j \in 1..(Len(data) - Len(mark) + 1) : SubSeq(data, j, j + Len(mark) - 1) = mark}

(***************************************************************************)
(* C9.  For every output encoding of a BOM-bearing family, whatever the    *)
(* case and the separators of its name, the mark merge prepends to the     *)
(* first sequence number is the standard mark of that family.              *)
(***************************************************************************)
C9_StandardBomOfFamily ==
    (Merged /\ OutCodec \in BomFamilies) =>
        \E mark \in StandardBoms(OutCodec) :
            StartsWith(lines[1], mark \o Bytes(Str(1)).bytes)

\* C9 witness: a merge under UTF-16 BE has prepended a mark that is not the
\* UTF-16 BE mark
C9_Witness ==
    /\ Merged
    /\ OutCodec = "utf_16_be"
    /\ StartsWith(lines[1], BOM_UTF32_BE \o Bytes(Str(1)).bytes)

(***************************************************************************)
(* C10.  In the stream merge writes, a byte-order-mark occurs exactly      *)
(* once, at the very start, when the output encoding is BOM-bearing; none  *)
(* occurs before a later block or inside a block, and none at all for an   *)
(* output encoding outside the BOM-bearing families.                       *)
(***************************************************************************)
C10_BomExactlyOnce ==
    Merged =>
        IF OutCodec \in BomFamilies
        THEN UNION {Occurrences(outfile.data, mark) : mark \in StandardBoms(OutCodec)} = {1}
        ELSE \A mark \in AnyBom : Occurrences(outfile.data, mark) = {}

\* C10 witness: a merge under generic UTF-16 has written a mark in front of
\* the second block
C10_Witness ==
    /\ Merged
    /\ OutCodec = "utf_16"
    /\ Len(lines) >= 2
    /\ \E mark \in StandardBoms(OutCodec) : StartsWith(lines[2], mark)

(***************************************************************************)
(* Vocabulary of the properties of normalize_color.                        *)
(***************************************************************************)
\* the components of the model that fit a byte
ByteComponents == {x \in Components : x <= 255}

\* the number an uppercase hex digit stands for
HexValue(d) == IF d \in 48..57 THEN d - 48 ELSE d - 55

\* the byte written by the two hex digits of v at k and k + 1
ReadByte(v, k) == 16 * HexValue(v[k]) + HexValue(v[k + 1])

\* v is '#' followed by six uppercase hex digits
IsHashHex(v) == Len(v) = 7 /\ v[1] = 35 /\ \A i \in 2..7 : v[i] \in (48..57) \cup (65..70)

\* the token, trimmed, is a color name in any letter case
IsNameToken(t) == Upper(Strip(t)) \in DOMAIN COLORS

\* the token, trimmed, is six hex digits in any letter case, with or without '#'
IsHexToken(t) ==
    LET c == Strip(t)
        digits == IF c # <<>> /\ c[1] = 35 THEN Tail(c) ELSE c
    IN  Len(digits) = 6
        /\ \A i \in 1..6 : digits[i] \in (48..57) \cup (65..70) \cup (97..102)

\* the token, trimmed, is written (r,g,b): three decimal numerals between
\* parentheses, separated by commas, whitespace allowed after a comma, and
\* every numeral is at most 255
IsByteTriple(t) ==
    LET c == Strip(t)
        commas == {i \in 1..Len(c) : c[i] = 44}
        c1 == Min(commas)
        c2 == Max(commas)
        f1 == SubSeq(c, 2, c1 - 1)
        f2 == LStrip(SubSeq(c, c1 + 1, c2 - 1))
        f3 == LStrip(SubSeq(c, c2 + 1, Len(c) - 1))
    IN  /\ Len(c) >= 2 /\ c[1] = 40 /\ c[Len(c)] = 41
        /\ Cardinality(commas) = 2
        /\ \A f \in {f1, f2, f3} : IsDigits(f) /\ ToInt(f) <= 255

(***************************************************************************)
(* C11.  For every RGB triple token "(r,g,b)" with r, g, b in 0..255,      *)
(* normalize_color returns '#' followed by six uppercase hex digits that,  *)
(* read back as three bytes, are exactly (r, g, b).                        *)
(***************************************************************************)
C11_RgbRoundTrip ==
    color_ret.done =>
        \A r, g, b \in ByteComponents, gap \in Gaps :
            color_arg = RgbToken(r, g, b, gap) =>
                /\ IsHashHex(color_ret.value)
                /\ ReadByte(color_ret.value, 2) = r
                /\ ReadByte(color_ret.value, 4) = g
                /\ ReadByte(color_ret.value, 6) = b

\* C11 witness: normalize_color has returned for a triple with a component
\* below 16, one above 160 and whitespace after the commas
C11_Witness ==
    /\ color_ret.done
    /\ color_arg = RgbToken(7, 171, 255, <<32>>)
    /\ IsHashHex(color_ret.value)

(***************************************************************************)
(* C12.  normalize_color never rejects a token: every non-empty token      *)
(* that is not a known color name, a 6-digit hex value (with or without    *)
(* '#') or an RGB triple with all components in 0..255, including a        *)
(* triple with a component above 255, yields the default '#FFFFFF'; an     *)
(* empty or absent token yields absent, and every other token a value.     *)
(***************************************************************************)
C12_UnrecognizedIsWhite ==
    color_ret.done =>
        /\ color_arg = <<>> <=> color_ret.value = <<>>
        /\ (color_arg # <<>> /\ ~IsNameToken(color_arg) /\ ~IsHexToken(color_arg)
              /\ ~IsByteTriple(color_arg)) => color_ret.value = WHITE
        /\ color_arg # <<>> => IsHashHex(color_ret.value)

\* C12 witness: normalize_color has returned white for a triple with a
\* component above 255
C12_Witness ==
    /\ color_ret.done
    /\ color_arg = RgbToken(256, 0, 16, <<>>)
    /\ ~IsByteTriple(color_arg)
    /\ color_ret.value = WHITE

(***************************************************************************)
(* Vocabulary of the properties of styling.                                *)
(***************************************************************************)
\* the styled texts stored for the source sub
StyledTexts(sub) == {StyledText(sub.dialogs[t]) : t \in DOMAIN sub.dialogs}

\* the source a successful add call has appended
NewSource == subtitles'[Len(subtitles')]

\* a step that is the call add(call) returning normally
AddOk(call) == add(call) /\ ret'.outcome = "ok"

\* the positions of text at which a screen-alignment override tag
\* '{\an', one digit, '}' starts
AlignmentTags(text) ==
    {j \in 1..(Len(text) - 5) :
        /\ SubSeq(text, j, j + 3) = <<123, 92, 97, 110>>
        /\ text[j + 4] \in 48..57
        /\ text[j + 5] = 125}

(***************************************************************************)
(* C13.  Styling is idempotent: the style of a source applied to a text    *)
(* stored for that source gives the same text again, and no stored text    *)
(* holds a font tag of a kind twice.                                       *)
(***************************************************************************)
C13_StylingIdempotent ==
    \A i \in 1..Len(subtitles) :
        \A text \in StyledTexts(subtitles[i]) :
            /\ ApplyStyle(text, subtitles[i].color, subtitles[i].size,
                          StartsWith(text, AN8)) = text
            /\ Cardinality(Occurrences(text, FontColorOpen)) <= 1
            /\ Cardinality(Occurrences(text, FontSizeOpen)) <= 1

\* C13 witness: a source added with a color holds a text with two color tags
C13_Witness ==
    \E i \in 1..Len(subtitles) :
        /\ subtitles[i].color # <<>>
        /\ \E text \in StyledTexts(subtitles[i]) :
              Cardinality(Occurrences(text, FontColorOpen)) = 2

(***************************************************************************)
(* C14.  When add is given a color token, the color tag stored with each   *)
(* cue of that source carries the normalized #RRGGBB value of the token,   *)
(* never the raw token.                                                    *)
(***************************************************************************)
C14_StoredColorNormalized ==
    \A i \in 1..Len(subtitles) :
        subtitles[i].color # <<>> =>
            \A text \in StyledTexts(subtitles[i]) :
                Contains(text, FontColorOpen \o normalize_color(subtitles[i].color) \o TagEnd)

\* C14 witness: a source added with the token 'yellow' holds a color tag
\* with the raw token
C14_Witness ==
    \E i \in 1..Len(subtitles) :
        /\ subtitles[i].color = Yellow
        /\ normalize_color(Yellow) # Yellow
        /\ \E text \in StyledTexts(subtitles[i]) :
              Contains(text, FontColorOpen \o Yellow \o TagEnd)

(***************************************************************************)
(* C15.  When the top flag is set, the styled text stored for each cue     *)
(* holds exactly one screen-alignment override tag, the top-of-screen tag  *)
(* at its very start.                                                      *)
(***************************************************************************)
C15_OneAlignmentTag ==
    [][\A call \in Calls :
          (AddOk(call) /\ call.top) =>
              \A text \in StyledTexts(NewSource) :
                  StartsWith(text, AN8) /\ AlignmentTags(text) = {1}]_vars

\* C15 witness: a source whose bodies carry an alignment tag of their own
\* has been added with a color and holds a text with two alignment tags
C15_Witness ==
    \E i \in 1..Len(subtitles) :
        /\ subtitles[i].address = "pre"
        /\ \E text \in StyledTexts(subtitles[i]) :
              StartsWith(text, AN8) /\ Cardinality(AlignmentTags(text)) = 2

(***************************************************************************)
(* C16.  Styling is applied in the order size-wrap, color-wrap,            *)
(* position-prepend: the stored text is the top-of-screen tag, then the    *)
(* color font tag enclosing the size font tag enclosing the body; the      *)
(* step of an absent option is skipped and the others keep their order.    *)
(***************************************************************************)
\* text with the prefix pre and the suffix post taken off; <<-1>>, which
\* is no text, when it does not have them
Unwrap(text, pre, post) ==
    IF Len(text) >= Len(pre) + Len(post) /\ StartsWith(text, pre) /\ EndsWith(text, post)
    THEN SubSeq(text, Len(pre) + 1, Len(text) - Len(post))
    ELSE <<-1>>

\* the texts that are left of text when the tags of the call are taken off
\* from the outside: position, then color (the token as given or
\* normalized), then size
Unstyled(text, call) ==
    LET noTop == IF call.top THEN Unwrap(text, AN8, <<>>) ELSE text
        noColor == IF call.color = <<>> THEN {noTop}
                   ELSE {Unwrap(noTop, FontColorOpen \o c \o TagEnd, FontClose) :
                            c \in {call.color, normalize_color(call.color)}}
    IN  IF call.size = <<>> THEN noColor
        ELSE {Unwrap(t, FontSizeOpen \o call.size \o TagEnd, FontClose) : t \in noColor}

C16_StyleOrder ==
    [][\A call \in Calls :
          AddOk(call) =>
              \A text \in StyledTexts(NewSource) :
                  \E body \in Unstyled(text, call) :
                      body # <<-1>> /\ Contains(NewSource.data, body)]_vars

\* C16 witness: a source has been added with size, color and top all set
C16_Witness ==
    /\ ret.op = "add" /\ ret.outcome = "ok"
    /\ LET sub == subtitles[Len(subtitles)]
       IN  /\ sub.size # <<>> /\ sub.color # <<>>
           /\ \E text \in StyledTexts(sub) :
                 StartsWith(text, AN8 \o FontColorOpen \o sub.color \o TagEnd \o FontSizeOpen)

(***************************************************************************)
(* Vocabulary of the properties of parsing: the cues of a file, read off   *)
(* the blocks of its text.                                                 *)
(***************************************************************************)
\* the lines of a block: sequence number, timecode line, and the body
BlockParts(d) == Split(LStrip(d), NL, 2)

\* the cues of the source sub: the blocks with a timecode line whose
\* start-time parses, as [tc, body, key]; the body is empty when the block
\* ends with the timecode line
RawCues(sub) ==
    {[tc |-> BlockParts(sub.raw_dialogs[k])[2],
      body |-> IF Len(BlockParts(sub.raw_dialogs[k])) = 3
               THEN BlockParts(sub.raw_dialogs[k])[3] ELSE <<>>,
      key |-> StartKey(BlockParts(sub.raw_dialogs[k])[2]).key] :
        k \in {k \in 1..Len(sub.raw_dialogs) :
                  /\ Len(BlockParts(sub.raw_dialogs[k])) >= 2
                  /\ StartKey(BlockParts(sub.raw_dialogs[k])[2]).ok}}

\* the body of the cue is empty or whitespace only
BlankBody(cue) == Strip(cue.body) = <<>>

(***************************************************************************)
(* C17.  A cue whose body is empty or consists only of whitespace is       *)
(* discarded by add: a start-time at which a source has only such cues     *)
(* has no entry in that source's per-time mapping.                         *)
(***************************************************************************)
C17_BlankBodyDiscarded ==
    \A i \in 1..Len(subtitles) :
        \A cue \in RawCues(subtitles[i]) :
            (\A other \in RawCues(subtitles[i]) : other.key = cue.key => BlankBody(other))
                => cue.key \notin DOMAIN subtitles[i].dialogs

\* C17 witness: a source holds an entry for a cue whose body is two spaces
C17_Witness ==
    \E i \in 1..Len(subtitles) :
        \E cue \in RawCues(subtitles[i]) :
            /\ cue.body # <<>>
            /\ BlankBody(cue)
            /\ cue.key \in DOMAIN subtitles[i].dialogs
            /\ cue.key \in SeqToSet(timestamps)

(***************************************************************************)
(* C18.  Timeline invariant: after any sequence of add calls (returning    *)
(* or raising) and merge calls, every start-time of the timeline has at    *)
(* least one source of the session with an entry at that start-time.       *)
(***************************************************************************)
C18_TimelineHasSource ==
    \A k \in 1..Len(timestamps) : Contributors(timestamps[k]) # {}

\* C18 witness: an add call has raised and left a start-time on the
\* timeline that no source of the session holds
C18_Witness ==
    /\ ret.op = "add"
    /\ ret.outcome = LoggerError
    /\ \E k \in 1..Len(timestamps) : Contributors(timestamps[k]) = {}

(***************************************************************************)
(* C19.  Round-trip: merging a single source without styling, in an        *)
(* output encoding that can represent it, reproduces every valid cue of    *)
(* the source: some output block holds the cue's timecode line followed    *)
(* by its body text, all body lines in order.                              *)
(***************************************************************************)
\* the session holds one source, added without color and size
SingleUnstyledSource ==
    /\ Len(subtitles) = 1
    /\ subtitles[1].color = <<>>
    /\ subtitles[1].size = <<>>

C19_RoundTrip ==
    (Merged /\ SingleUnstyledSource /\ \A entry \in AllEntries : ~Unencodable(entry)) =>
        \A cue \in RawCues(subtitles[1]) :
            ~BlankBody(cue) =>
                \E i \in 1..Len(lines) :
                    /\ Numbered(i)
                    /\ Contains(lines[i], Bytes(cue.tc \o NL \o RStrip(cue.body)).bytes)

\* C19 witness: a merge of a single unstyled source with two valid cues at
\* one start-time has written one block
C19_Witness ==
    /\ Merged
    /\ SingleUnstyledSource
    /\ subtitles[1].address = "dup"
    /\ Cardinality({cue \in RawCues(subtitles[1]) : ~BlankBody(cue)}) = 2
    /\ Len(lines) = 1

(***************************************************************************)
(* Vocabulary of the properties of two sessions.                           *)
(***************************************************************************)
RECURSIVE Alone(_, _, _)
\* the lists and the output of an instance constructed with args after the
\* calls ops, made on it with no other instance in the process: st is
\* [lists, written, wrote]
Alone(st, ops, args) ==
    IF ops = <<>> THEN st
    ELSE Alone(OpEffect(st.lists, st.written, Head(ops), args), Tail(ops), args)

\* the calls of the two instances alternate: 1, 2, 1, 2
Interleaved ==
    /\ Len(mergers[1].calls) = 2 /\ Len(mergers[2].calls) = 2
    /\ mergers[1].calls[1].at < mergers[2].calls[1].at
    /\ mergers[2].calls[1].at < mergers[1].calls[2].at
    /\ mergers[1].calls[2].at < mergers[2].calls[2].at

(***************************************************************************)
(* C20.  Sessions share no mutable state: for two sessions whose add and   *)
(* merge calls are interleaved in any order, each session's sources,       *)
(* timeline, lines and written output are what the session produces when   *)
(* its calls are run alone.                                                *)
(***************************************************************************)
C20_SessionsIndependent ==
    \A k \in 1..2 :
        LET alone == Alone([lists |-> EmptyLists, written |-> NoOutput, wrote |-> FALSE],
                           mergers[k].calls, mergers[k].args)
        IN  /\ lists[ListCell(k)] = alone.lists
            /\ mergers[k].written = alone.written

\* C20 witness: the calls of two sessions have alternated, each session has
\* added a source and written its output, and the outputs differ
C20_Witness ==
    /\ Interleaved
    /\ \A k \in 1..2 :
          /\ mergers[k].calls[1].kind = "add"
          /\ mergers[k].calls[2].kind = "merge"
          /\ mergers[k].written.exists
          /\ lists[ListCell(k)].subtitles # <<>>
    /\ mergers[1].written.data # mergers[2].written.data

(***************************************************************************)
(* Vocabulary of the properties of the final trim.                         *)
(***************************************************************************)
\* the output encodings with one encoded form of a line break: single-byte
\* code pages, UTF-8, and UTF-16 and UTF-32 of a given byte order
FixedOrderCodecs ==
    {"ascii", "latin_1", "utf_8", "utf_16_le", "utf_16_be", "utf_32_le", "utf_32_be"}

\* the number of bytes of a code unit of the output encoding
CodeUnit ==
    CASE OutCodec \in {"utf_16", "utf_16_le", "utf_16_be"} -> 2
      [] OutCodec \in {"utf_32", "utf_32_le", "utf_32_be"} -> 4
      [] OTHER -> 1

\* the block appended to self.lines for the i-th output cue, before the
\* final trim
Untrimmed(i) == MergeBlock(i, Entry(i), output_encoding, byteorder).bytes

\* the text the last output cue was emitted for can be encoded and, as
\* merge serializes it, ends with one line break
LastEndsWithLineBreak ==
    LET text == Replace(Entry(Len(emitted)), NL \o NL, <<>>, -1)
    IN  /\ ~Unencodable(Entry(Len(emitted)))
        /\ EndsWith(text, NL)
        /\ ~EndsWith(text, NL \o NL)

(***************************************************************************)
(* C21.  Final trim: for every output encoding with a fixed byte order     *)
(* (single-byte code pages, UTF-8, UTF-16 LE/BE, UTF-32 LE/BE), merge      *)
(* removes from the end of the last block exactly the encoded bytes of     *)
(* its one trailing line break: the written stream is a whole number of    *)
(* code units, does not end with a line break, and every other byte is as  *)
(* it was appended.                                                        *)
(***************************************************************************)
C21_FinalTrim ==
    (Merged /\ OutCodec \in FixedOrderCodecs /\ LastEndsWithLineBreak) =>
        LET n == Len(lines)
            nl == Bytes(NL).bytes
        IN  /\ lines[n] = SubSeq(Untrimmed(n), 1, Len(Untrimmed(n)) - Len(nl))
            /\ \A i \in 1..(n - 1) : lines[i] = Untrimmed(i)
            /\ Len(outfile.data) % CodeUnit = 0
            /\ ~EndsWith(outfile.data, nl)

\* C21 witness: a merge in big-endian UTF-16 has written a stream that
\* ends in the middle of a code unit
C21_Witness ==
    /\ Merged
    /\ OutCodec = "utf_16_be"
    /\ LastEndsWithLineBreak
    /\ Len(outfile.data) % CodeUnit = 1
    /\ lines[Len(lines)] = SubSeq(Untrimmed(Len(lines)), 1, Len(Untrimmed(Len(lines))) - 1)

(***************************************************************************)
(* C22.  In every merge output the i-th emitted block carries sequence     *)
(* number i (1-based): the numbering is contiguous in emission order,      *)
(* however many sources contribute at a start-time and whether or not a    *)
(* block holds the encode-failure placeholder, and every merge call        *)
(* numbers from 1 again.                                                   *)
(***************************************************************************)
C22_NumberedInEmissionOrder ==
    ret.op = "merge" =>
        /\ Len(emitted) = Len(lines)
        /\ \A i \in 1..Len(lines) : Numbered(i)

\* C22 witness: a merge of two sources that share a start-time has written
\* at least three blocks, one of them the placeholder with a block after it
C22_Witness ==
    /\ Merged
    /\ Len(lines) >= 3
    /\ SharedTimes # {}
    /\ \E i \in 1..(Len(lines) - 1) :
          /\ Unencodable(Entry(i))
          /\ EndsWith(lines[i], EncodeErrorBytes)
          /\ Numbered(i + 1)

(***************************************************************************)
(* C23.  For a start-time shared by several sources, the sources'          *)
(* contributions appear in the merge output in the order in which the      *)
(* sources were added to the session, for every order of add calls: of     *)
(* two contributing sources, the block of the one added first comes        *)
(* first.                                                                  *)
(***************************************************************************)
C23_SharedTimeInAddOrder ==
    Merged =>
        \A t \in SharedTimes :
            \A i, j \in Contributors(t) :
                i < j =>
                    \E a, b \in CuesAt(t) :
                        /\ a < b
                        /\ emitted[a].sub = i /\ CarriesEntry(a, subtitles[i].dialogs[t])
                        /\ emitted[b].sub = j /\ CarriesEntry(b, subtitles[j].dialogs[t])

\* C23 witness: fr was added before en, they share a start-time with
\* different texts, and the merge has written the block of fr before that
\* of en
C23_Witness ==
    /\ Merged
    /\ Len(subtitles) = 2
    /\ subtitles[1].address = "fr"
    /\ subtitles[2].address = "en"
    /\ \E t \in SharedTimes :
          /\ subtitles[1].dialogs[t] # subtitles[2].dialogs[t]
          /\ \E a \in 1..(Len(lines) - 1) :
                /\ emitted[a] = [t |-> t, sub |-> 1]
                /\ emitted[a + 1] = [t |-> t, sub |-> 2]
                /\ ~CarriesEntry(a, subtitles[2].dialogs[t])

(***************************************************************************)
(* C24.  When a single source contains two or more valid cues with the     *)
(* same start-time, that source's entry for the start-time keeps the       *)
(* complete body text of every such cue, on lines separate from the        *)
(* timecode line: no body of an earlier cue is lost when a later cue with  *)
(* the same start-time is indexed.  (The formula states the part of the    *)
(* claim that every body is kept; the order of the bodies is not needed    *)
(* to decide it.)                                                          *)
(***************************************************************************)
C24_SameTimeCuesKept ==
    \A i \in 1..Len(subtitles) :
        \A cue, other \in RawCues(subtitles[i]) :
            (cue # other /\ cue.key = other.key /\ ~BlankBody(cue) /\ ~BlankBody(other)) =>
                /\ cue.key \in DOMAIN subtitles[i].dialogs
                /\ Contains(Split(subtitles[i].dialogs[cue.key], NL, 1)[2], RStrip(cue.body))

\* C24 witness: the source dup holds two valid cues with one start-time,
\* and its entry for that start-time holds the body of the second only
C24_Witness ==
    \E i \in 1..Len(subtitles) :
        /\ subtitles[i].address = "dup"
        /\ \E t \in DOMAIN subtitles[i].dialogs :
              /\ Cardinality({cue \in RawCues(subtitles[i]) : cue.key = t /\ ~BlankBody(cue)}) = 2
              /\ Contains(subtitles[i].dialogs[t], World)
              /\ ~Contains(subtitles[i].dialogs[t], Hello)

(***************************************************************************)
(* C25.  add is all-or-nothing: if an add call raises for any reason       *)
(* after some cues of the file have been indexed, none of that file's      *)
(* start-times remain in the session timeline and the file is not in the   *)
(* session's source list.                                                  *)
(***************************************************************************)
C25_AddAllOrNothing ==
    [][(AddStep /\ ret'.outcome # "ok") =>
          /\ timestamps' = timestamps
          /\ subtitles' = subtitles]_vars

\* C25 witness: the first add call of a session has raised after indexing
\* a cue: the source list is empty and the timeline is not
C25_Witness ==
    /\ ret.op = "add"
    /\ ret.outcome = LoggerError
    /\ nAdds = 1
    /\ subtitles = <<>>
    /\ timestamps # <<>>

(***************************************************************************)
(* Vocabulary of the properties of repeated merges.                        *)
(***************************************************************************)
\* a step that is one merge call
MergeStep == ret'.op = "merge" /\ nAdds' = nAdds

\* the per-time mappings of the sources, in add order
Mappings == [i \in 1..Len(subtitles) |-> subtitles[i].dialogs]

(***************************************************************************)
(* C26.  merge is repeatable and read-only on the indexed cues: it leaves  *)
(* every source's per-time mapping unchanged, and a merge call that        *)
(* follows a merge call with no add in between writes byte-identical       *)
(* output: it neither appends to nor renumbers from the blocks of the      *)
(* first call.                                                             *)
(***************************************************************************)
C26_MergeRepeatable ==
    [][MergeStep =>
          /\ Mappings' = Mappings
          /\ Merged => /\ Merged'
                       /\ lines' = lines
                       /\ outfile' = outfile]_vars

\* C26 witness: a merge has written several blocks of two sources, from
\* where a second merge call is a step of the same session
C26_Witness ==
    /\ Merged
    /\ Len(subtitles) = 2
    /\ Len(lines) >= 3
    /\ outfile.data = Concat(lines)
    /\ MergeEffect(timestamps, subtitles, output_path, output_name, output_encoding,
                   byteorder).lines = lines

(***************************************************************************)
(* C27.  merge emits every entry of every source's per-time mapping        *)
(* exactly once: the number of output blocks equals the sum, over the      *)
(* sources of the session, of the number of distinct start-times indexed   *)
(* for that source, with no entry dropped and none emitted twice.          *)
(***************************************************************************)
C27_EveryEntryOnce ==
    Merged =>
        /\ Len(lines) = CountEntries(Len(subtitles))
        /\ \A i \in 1..Len(subtitles) :
              \A t \in DOMAIN subtitles[i].dialogs :
                  /\ Cardinality({k \in 1..Len(emitted) : emitted[k] = [t |-> t, sub |-> i]}) = 1
                  /\ \E k \in 1..Len(lines) :
                        /\ emitted[k] = [t |-> t, sub |-> i]
                        /\ CarriesEntry(k, subtitles[i].dialogs[t])

\* C27 witness: a merge of one file added twice, with two start-times, has
\* written four blocks
C27_Witness ==
    /\ Merged
    /\ Len(subtitles) = 2
    /\ subtitles[1].address = subtitles[2].address
    /\ Cardinality(AllTimes) = 2
    /\ Len(timestamps) = 2
    /\ Len(lines) = 4

(***************************************************************************)
(* Vocabulary of the properties of a batch run.                            *)
(***************************************************************************)
\* the positions of the signals log that hold a signal of the kind given
SignalsOf(kind) == {k \in 1..Len(signals) : signals[k].signal = kind}

\* the positions of the log that announce the start of an episode
Starts == {k \in 1..Len(signals) : signals[k] = Progress(ProcessingText, signals[k].episode)}

\* run() has begun
Started == worker # <<>> /\ worker.pc # "idle"

\* run() has returned
Returned == worker # <<>> /\ worker.pc = "done"

\* stop() has been called
Stopped == worker # <<>> /\ worker.stopped_at >= 0

\* what a Merger of its own does for the episode match: whether the two
\* add calls and merge return, and the bytes written
EpisodeAlone(match, args) ==
    LET first == AddEffect(FirstAdd(match, args), <<>>, <<>>)
        second == AddEffect(SecondAdd(match), first.timestamps, first.subtitles)
        merged == MergeEffect(second.timestamps, second.subtitles, DotDir, NewSrt,
                              ENC_utf8, "little")
    IN  IF first.outcome # "ok" \/ second.outcome # "ok" \/ merged.outcome # "ok"
        THEN [ok |-> FALSE, data |-> <<>>]
        ELSE [ok |-> TRUE, data |-> Concat(merged.lines)]

\* the signal that ends the episode match
ResultSignal(match, args) ==
    IF EpisodeAlone(match, args).ok
    THEN Progress(SuccessText, match.episode_num)
    ELSE ErrorSignal(match.episode_num)

RECURSIVE ExpectedLog(_, _)
\* the signals of the first n matches of the list, each processed alone
ExpectedLog(n, args) ==
    IF n = 0 THEN <<>>
    ELSE ExpectedLog(n - 1, args)
         \o <<Progress(ProcessingText, worker.matches[n].episode_num),
              ResultSignal(worker.matches[n], args)>>

RECURSIVE ExpectedOutputs(_, _)
\* the files written for the first n matches, each processed alone
ExpectedOutputs(n, args) ==
    IF n = 0 THEN <<>>
    ELSE ExpectedOutputs(n - 1, args)
         \o (IF EpisodeAlone(worker.matches[n], args).ok
             THEN <<[episode |-> worker.matches[n].episode_num,
                     data |-> EpisodeAlone(worker.matches[n], args).data]>>
             ELSE <<>>)

\* the finished signal is in the log at most once, as its last signal, and
\* it is there when and only when run() has returned
FinishedLast ==
    worker # <<>> =>
        /\ Cardinality(SignalsOf("finished")) <= 1
        /\ SignalsOf("finished") \subseteq {Len(signals)}
        /\ Returned <=> SignalsOf("finished") # {}

\* run() has returned and the log holds one finished signal
FinishedOnce == Returned /\ Cardinality(SignalsOf("finished")) = 1

(***************************************************************************)
(* C28.  Every run of the batch MergeWorker eventually emits the finished  *)
(* signal, exactly once and after its last progress or error signal,       *)
(* whether all episodes succeed, some or all fail, the match list is       *)
(* empty, or stop() was called.                                            *)
(***************************************************************************)
C28_FinishedOnceAtEnd == []FinishedLast /\ (Started ~> FinishedOnce)

\* C28 witness: a run that was stopped has returned after an episode that
\* failed and one that succeeded, the finished signal last
C28_Witness ==
    /\ Returned
    /\ Stopped
    /\ SignalsOf("error") # {}
    /\ \E k \in SignalsOf("progress") : signals[k].text = SuccessText
    /\ signals[Len(signals)] = FinishedSignal

(***************************************************************************)
(* C29.  Original claim: once stop() has been called on the MergeWorker,   *)
(* no further episode is started: no later 'Processing episode' signal is  *)
(* emitted.                                                                *)
(***************************************************************************)
C29_NoStartAfterStop ==
    Stopped => \A k \in Starts : k <= worker.stopped_at

\* C29 as amended: cancellation takes effect at the worker's next test of
\* the flag, between episodes.  After stop() is called, the only episode
\* that can still be started is the one whose test had passed before the
\* call, and its 'Processing episode' signal is the first signal after the
\* call; every episode that was started runs to completion: when run()
\* returns, each start signal is followed by that episode's success or
\* error signal, the one the episode gives when processed alone.
C29_StopAtNextCheck ==
    worker # <<>> =>
        /\ Stopped =>
              \A k \in Starts :
                  k > worker.stopped_at =>
                      k = worker.stopped_at + 1 /\ worker.stopped_pc = "processing"
        /\ Returned =>
              \A k \in Starts :
                  /\ k < Len(signals)
                  /\ signals[k + 1] =
                        ResultSignal(worker.matches[signals[k].episode], worker.merger_args)

\* C29 witness: stop() was called during the second add of the first of
\* two episodes; the episode was merged and the second was not started
C29_Witness ==
    /\ Returned
    /\ Stopped
    /\ worker.stopped_pc = "add2"
    /\ Len(worker.matches) = 2
    /\ signals = <<Progress(ProcessingText, 1), Progress(SuccessText, 1), FinishedSignal>>
    /\ Len(worker.outputs) = 1

(***************************************************************************)
(* C30.  In a batch run, episodes are processed in list order, each with   *)
(* its own fresh merge session; a failure of add or merge for one episode  *)
(* emits exactly one error signal and no success message for that          *)
(* episode, and every later episode is still processed, unaffected by the  *)
(* failed one: the signals and the files written for the episodes done so  *)
(* far are those of each episode processed alone, and a run that is not    *)
(* stopped does every episode of the list.                                 *)
(***************************************************************************)
C30_EpisodesInOrderAlone ==
    (worker # <<>> /\ worker.pc \in {"for", "finally", "done"}) =>
        /\ Len(signals) = 2 * (worker.i - 1) + (IF Returned THEN 1 ELSE 0)
        /\ SubSeq(signals, 1, 2 * (worker.i - 1)) = ExpectedLog(worker.i - 1, worker.merger_args)
        /\ worker.outputs = ExpectedOutputs(worker.i - 1, worker.merger_args)
        /\ (Returned /\ ~Stopped) => worker.i = Len(worker.matches) + 1

\* C30 witness: a run that was not stopped has returned; its first episode
\* failed with one error signal, its second was merged and written
C30_Witness ==
    /\ Returned
    /\ ~Stopped
    /\ signals = <<Progress(ProcessingText, 1), ErrorSignal(1),
                   Progress(ProcessingText, 2), Progress(SuccessText, 2), FinishedSignal>>
    /\ Len(worker.outputs) = 1
    /\ worker.outputs[1].episode = 2

====
